---- MODULE Spec2Model ----
(***************************************************************************)
(* Pixshop: the editing session of the photo editor.                       *)
(*                                                                         *)
(* The repository holds two versions of the application component:        *)
(*   src/unnamed/part_000  AppContent + EditorContent, the editor mounted  *)
(*                         under key = name + lastModified ("keyed")       *)
(*   src/unnamed/part_001  one AppContent that owns the session ("flat")   *)
(* Both are modelled; `variant` is chosen in Init and never changes.       *)
(*                                                                         *)
(* React semantics used throughout:                                        *)
(*  - a handler reads the state of the render it was created in; an async  *)
(*    handler keeps reading that render's values after its await (the      *)
(*    useCallback closures over history / historyIndex);                   *)
(*  - state setters of one handler are applied together, and the passive   *)
(*    effects of the following render run before the next event, so a      *)
(*    handler together with the effects it triggers is one step;           *)
(*  - a disabled button dispatches no click, an unmounted component        *)
(*    ignores state setters.                                               *)
(*                                                                         *)
(* Numbers: scale is kept in percent (1 = 100), offsets are exact          *)
(* rationals <<numerator, denominator>>.                                   *)
(***************************************************************************)
EXTENDS Integers, Sequences, FiniteSets, TLC

\* ------------------------------------------------------------- bounds
\* File objects (uploads and edit results) created in one run.  Every mount
\* of EditorContent and every committed edit takes one, so this also bounds
\* the editor instances and the calls in flight.
MaxFiles == 3
\* Gallery saves in flight at once.
MaxSaves == 1
\* Zoom-button presses away from scale 1 that a session run explores.
ViewSteps == 1

\* Display pixels a drag of an expand handle moves the pointer, each way.
MaxDrag == 1
\* Display pixels the expand rectangle is followed beyond the image, each way.
MaxGrow == 1
\* Distance of the two touch points of a pinch, in pixels.
MaxDist == 2
\* Fingers on the viewport at once.
MaxTouches == 3
\* Pointer positions on the viewport: multiples of the centre, per axis.
MaxPointer == 1
\* Events on the viewport in a run of gestures.
MaxGestures == 4
\* Pixels of a mask handed to the binarization.
MaxMaskPixels == 3
\* Natural and displayed width of an image in the crop runs, in pixels.
MaxPixels == 15
\* Natural and displayed height of an image in the crop runs, in pixels.
MaxSide == 2
\* window.devicePixelRatio in the crop runs (0 stands for an unset value).
MaxRatio == 2
\* clientWidth of the image and width of the expand rectangle in the runs of
\* the generation parameters.
MaxDisplay == 6
MaxRect == 27
\* candidates of a response and parts of a candidate in the runs of
\* handleApiResponse.
\* images ever put in the batch queue
MaxBatchImages == 3
MaxCandidates == 2
MaxParts == 2

\* ------------------------------------------------- program constants
MinScale == 20
MaxScale == 800
InitialScale == 100
\* half of the viewport's client size: the zoom buttons' centre
ViewportCenterX == 100
ViewportCenterY == 50
\* significant bits of a JavaScript number (IEEE 754 binary64)
DoubleBits == 53
\* the scale that is not a number (0 / 0), and a coordinate that is not one
NaN == -1
NaNCoord == <<0, 0>>

\* clientWidth / clientHeight of the image shown in the expand panel
DisplayWidth == 2
DisplayHeight == 1

VARIABLES
    variant,            \* "keyed" (part_000) or "flat" (part_001)
    appMode,            \* part_000 AppContent.appMode
    initialEditorImage, \* part_000 AppContent.initialEditorImage (0 = null)
    mounted,            \* EditorContent is mounted (keyed); TRUE in the flat variant
    history,            \* useState<File[]>
    historyIndex,       \* useState<number>, 0-based, -1 = nothing loaded
    isLoading,
    error,              \* NoError or a message key
    activeTab,
    completedCrop,
    scale,
    position,
    isMaskEmpty,
    saveState,
    calls,              \* external edit calls in flight
    saves,              \* gallery saves in flight of the mounted instance
    nextFile,           \* identity of the next File object created
    lastLoad,           \* history variable: the image of the most recent load (0 = none)
    ev,                 \* history variable: the handler that ran last ("ui" for
                        \* the ones no property needs to tell apart)
    pointer,            \* the viewport's gesture refs (isPanning, panStart, ...)
    expandPanel,        \* ExpandPanel's state and its dragState ref
    imgElement,         \* imgRef.current's naturalWidth / naturalHeight / width / height
    canvas,             \* history variable: the off-screen canvas the last
                        \* handler that made one worked on
    apiCall,            \* geminiService: the response handleApiResponse was
                        \* given and what it made of it
    batch               \* BatchProcessor's state (images, status)

vars == <<variant, appMode, initialEditorImage, mounted, history,
          historyIndex, isLoading, error, activeTab, completedCrop, scale,
          position, isMaskEmpty, saveState, calls, saves, nextFile, lastLoad, ev,
          pointer, expandPanel, imgElement, canvas, apiCall, batch>>

appVars == <<variant, appMode, initialEditorImage, mounted>>
historyVars == <<history, historyIndex>>
viewVars == <<scale, position>>
\* what the session runs leave alone: the gestures on the viewport and the
\* expand panel have specifications of their own (SpecView, SpecExpand)
geomVars == <<imgElement, canvas>>
\* the service function and the batch screen have specifications of their own
sideVars == <<geomVars, apiCall, batch>>
auxVars == <<pointer, expandPanel, sideVars>>

\* ---------------------------------------------------------- values
NoFile == 0
NoError == "none"
NoCrop == [x |-> 0, y |-> 0, width |-> -1, height |-> -1]
CropSelections == {[x |-> 0, y |-> 0, width |-> 2, height |-> 2]}
Origin == [x |-> <<0, 1>>, y |-> <<0, 1>>]

\* type Tab.  The tabs adjust, combine, bgRemove and portrait are left out of
\* the runs: their handlers are the text of handleApplyFilter with another
\* generate function and another message key, and their panels show the same
\* viewport.  "enhance" and "filters" are the tabs a load selects.
Tabs000 == {"enhance", "erase", "filters", "crop", "expand"}
Tabs001 == Tabs000 \ {"enhance"}
Tabs == IF variant = "keyed" THEN Tabs000 ELSE Tabs001

\* the AI-backed operations; each edit tab has one, "hq" is the HQ download
EditOps == {"enhance", "erase", "filters", "expand"}

Range(s) == {s[k] : k \in 1..Len(s)}

\* ------------------------------------------------ exact arithmetic
RECURSIVE Gcd(_, _)
Gcd(a, b) == IF b = 0 THEN a ELSE Gcd(b, a % b)

Abs(a) == IF a < 0 THEN -a ELSE a

\* the fraction n/d (d > 0) in lowest terms
Frac(n, d) == LET g == Gcd(Abs(n), d) IN <<n \div g, d \div g>>

\* (mutant) the offset is kept whatever the scales
Anchor_offsetKept(center, off, newScale, oldScale) == off

\* center - (center - off) * (newScale / oldScale), off = <<n, d>>
Anchor(center, off, newScale, oldScale) ==
    IF newScale = NaN \/ oldScale = NaN \/ off = NaNCoord THEN NaNCoord
    ELSE Frac(center * off[2] * oldScale - (center * off[2] - off[1]) * newScale,
              off[2] * oldScale)

\* c - q for a number c and a fraction q
Minus(c, q) == IF q = NaNCoord THEN NaNCoord ELSE Frac(c * q[2] - q[1], q[2])

Clamp(v) == IF v < MinScale THEN MinScale ELSE IF v > MaxScale THEN MaxScale ELSE v

\* ------------------------------------------------ derived values
currentImage == IF historyIndex >= 0 /\ historyIndex < Len(history)
                THEN history[historyIndex + 1] ELSE NoFile
originalImage == IF Len(history) > 0 THEN history[1] ELSE NoFile

canUndo == historyIndex > 0
canRedo == historyIndex < Len(history) - 1

\* the editor's controls are on screen: no error panel, no start screen
EditorShown == mounted /\ error = NoError /\ currentImage # NoFile
               /\ (variant = "keyed" => appMode = "editor")

\* the viewport with the image, the mask canvas and the zoom bar
ViewportShown == EditorShown /\ activeTab \notin {"crop", "expand"}

\* ------------------------------------------------ shared helpers
\* resetZoomAndPan: setScale(1); setPosition({x: 0, y: 0})
resetZoomAndPan == [scale |-> InitialScale, position |-> Origin]

\* (mutant) the slice is forgotten: the new version is appended to the whole list
addImageToHistory_noSlice(h, i, f) ==
    [history |-> Append(h, f), historyIndex |-> Len(h)]

\* (mutant) the index is set to the new length
addImageToHistory_lengthAsIndex(h, i, f) ==
    LET newHistory == Append(SubSeq(h, 1, i + 1), f)
    IN  [history |-> newHistory, historyIndex |-> Len(newHistory)]

\* addImageToHistory's two history setters: newHistory = history.slice(0,
\* historyIndex + 1); newHistory.push(file); index = newHistory.length - 1
addImageToHistory(h, i, f) ==
    LET newHistory == Append(SubSeq(h, 1, i + 1), f)
    IN  [history |-> newHistory, historyIndex |-> Len(newHistory) - 1]

\* (mutant) the effect runs for the first image only
CurrentImageEffect_firstImageOnly(old, new) == new # NoFile /\ old = NoFile

\* (mutant) the effect never runs
CurrentImageEffect_never(old, new) == FALSE

\* the effect on [currentImage]: it runs when the current File object changed
\* and is not null, and then sets saveState 'idle' and clears the mask
CurrentImageEffect(old, new) == new # NoFile /\ new # old

\* the whole of addImageToHistory(f) called from a render whose history and
\* historyIndex were h and i
Commit(h, i, f) ==
    /\ history' = addImageToHistory(h, i, f).history
    /\ historyIndex' = addImageToHistory(h, i, f).historyIndex
    /\ saveState' = "idle"
    /\ completedCrop' = NoCrop
    /\ scale' = resetZoomAndPan.scale
    /\ position' = resetZoomAndPan.position
    /\ isMaskEmpty' = TRUE

\* moving the index to j (undo, redo, reset) and the [currentImage] effect
MoveIndex(j) ==
    /\ historyIndex' = j
    /\ history' = history
    /\ IF CurrentImageEffect(currentImage, history[j + 1])
       THEN saveState' = "idle" /\ isMaskEmpty' = TRUE
       ELSE UNCHANGED <<saveState, isMaskEmpty>>

\* the load of image f into a mounted editor: the [initialImage] effect of
\* EditorContent (keyed) or handleImageUpload (flat), then the
\* [currentImage] effect
LoadImage(f) ==
    /\ error' = NoError
    /\ history' = <<f>>
    /\ historyIndex' = 0
    /\ activeTab' = IF variant = "keyed" THEN "enhance" ELSE "filters"
    /\ completedCrop' = NoCrop
    /\ scale' = resetZoomAndPan.scale
    /\ position' = resetZoomAndPan.position
    /\ IF CurrentImageEffect(currentImage, f)
       THEN saveState' = "idle" /\ isMaskEmpty' = TRUE
       ELSE UNCHANGED <<saveState, isMaskEmpty>>
    /\ lastLoad' = f

\* the useState initial values of a component that is not mounted
BlankSession ==
    /\ history' = <<>>
    /\ historyIndex' = -1
    /\ isLoading' = FALSE
    /\ error' = NoError
    /\ activeTab' = "enhance"
    /\ completedCrop' = NoCrop
    /\ scale' = InitialScale
    /\ position' = Origin
    /\ isMaskEmpty' = TRUE
    /\ saveState' = "idle"

\* the calls in flight once the mounted instance is unmounted: they settle in
\* a component that ignores its setters, so nothing of them is read again and
\* one marker stands for all of them
OrphanCall == [live |-> FALSE, op |-> "none", history |-> <<>>,
               historyIndex |-> -1, seq |-> 0, token |-> NoFile]
Orphaned == IF calls = {} THEN {} ELSE {OrphanCall}

\* a new EditorContent instance (the old one, if any, is unmounted): fresh
\* useState values, then the load of f
MountEditor(f) ==
    /\ mounted' = TRUE
    /\ initialEditorImage' = f
    /\ appMode' = "editor"
    /\ history' = <<f>>
    /\ historyIndex' = 0
    /\ isLoading' = FALSE
    /\ error' = NoError
    /\ activeTab' = "enhance"
    /\ completedCrop' = NoCrop
    /\ scale' = InitialScale
    /\ position' = Origin
    /\ isMaskEmpty' = TRUE
    /\ saveState' = "idle"
    /\ saves' = 0
    /\ calls' = Orphaned
    /\ lastLoad' = f

\* ------------------------------------------------ initial state
\* the useRef initial values of the viewport's gesture refs
\* (touches: the fingers on the viewport; center: history field, the centre
\* of the zoom the last event made, NoCenter when it made none; gestures:
\* history field, the viewport events so far)
NoCenter == [x |-> -1, y |-> -1]
\* lastPosition.current: null, or the one point the last drawOnCanvas drew to
\* (mouseDown: the left button is held down over the viewport; maskPainted:
\* the canvas of maskCanvasRef holds paint)
NoPosition == <<>>
IdlePointer == [isPanning |-> FALSE, panStart |-> Origin,
                initialTouchDistance |-> 0, initialScale |-> InitialScale,
                isDrawing |-> FALSE, lastPosition |-> NoPosition, touches |-> 0,
                mouseDown |-> FALSE, maskPainted |-> FALSE, center |-> NoCenter,
                gestures |-> 0]

\* ExpandPanel is not mounted
NoPanel == [mounted |-> FALSE]

\* the image element of the session runs: shown at its natural size
RunImage == [naturalWidth |-> DisplayWidth, naturalHeight |-> DisplayHeight,
             width |-> DisplayWidth, height |-> DisplayHeight]
\* no off-screen canvas was made yet
NoCanvas == [kind |-> "none"]
\* no response was handled; the batch screen is not shown
NoApiCall == [kind |-> "none"]
NoBatch == [mounted |-> FALSE]

Init ==
    /\ variant \in {"keyed", "flat"}
    /\ appMode = IF variant = "keyed" THEN "start" ELSE "editor"
    /\ initialEditorImage = NoFile
    /\ mounted = (variant = "flat")
    /\ history = <<>>
    /\ historyIndex = -1
    /\ isLoading = FALSE
    /\ error = NoError
    /\ activeTab = IF variant = "keyed" THEN "enhance" ELSE "erase"
    /\ completedCrop = NoCrop
    /\ scale = InitialScale
    /\ position = Origin
    /\ isMaskEmpty = TRUE
    /\ saveState = "idle"
    /\ calls = {}
    /\ saves = 0
    /\ nextFile = 1
    /\ lastLoad = NoFile
    /\ ev = "init"
    /\ pointer = IdlePointer
    /\ expandPanel = NoPanel
    /\ imgElement = RunImage
    /\ apiCall = NoApiCall
    /\ batch = NoBatch
    /\ canvas = NoCanvas

\* ------------------------------------------------ loading an image
\* StartScreen's file input: handleFileSelect
FileSelect ==
    /\ nextFile <= MaxFiles
    /\ nextFile' = nextFile + 1
    /\ ev' = "load"
    /\ IF variant = "keyed"
       THEN /\ appMode = "start"
            /\ MountEditor(nextFile)
            /\ UNCHANGED variant
       ELSE /\ mounted /\ error = NoError /\ currentImage = NoFile
            /\ LoadImage(nextFile)
            /\ UNCHANGED <<appVars, isLoading, calls, saves>>

\* GalleryModal's onImageSelect: handleImageSelectForEditing (keyed),
\* handleSelectImageFromGallery (flat).  The gallery hands over a File object
\* of its own; in the keyed variant its name + lastModified may equal the key
\* of the mounted editor (sameKey), and then the editor is not remounted but
\* sees a new initialImage prop.
GallerySelect ==
    /\ nextFile <= MaxFiles
    /\ nextFile' = nextFile + 1
    /\ ev' = "load"
    /\ IF variant = "keyed"
       THEN \E sameKey \in BOOLEAN :
              IF mounted /\ sameKey
              THEN /\ initialEditorImage' = nextFile
                   /\ LoadImage(nextFile)
                   /\ UNCHANGED <<variant, appMode, mounted, isLoading, calls, saves>>
              ELSE /\ ~sameKey
                   /\ MountEditor(nextFile)
                   /\ UNCHANGED variant
       ELSE /\ LoadImage(nextFile)
            /\ UNCHANGED <<appVars, isLoading, calls, saves>>

\* the "upload new" button: onUploadNew = AppContent.handleUploadNew (keyed,
\* the editor is unmounted), handleUploadNew (flat)
UploadNew ==
    /\ EditorShown
    /\ ev' = "uploadNew"
    /\ lastLoad' = NoFile
    /\ IF variant = "keyed"
       THEN /\ initialEditorImage' = NoFile
            /\ appMode' = "start"
            /\ mounted' = FALSE
            /\ BlankSession
            /\ saves' = 0
            /\ calls' = Orphaned
            /\ UNCHANGED <<variant, nextFile>>
       ELSE /\ history' = <<>>
            /\ historyIndex' = -1
            /\ error' = NoError
            /\ scale' = resetZoomAndPan.scale
            /\ position' = resetZoomAndPan.position
            /\ UNCHANGED <<appVars, isLoading, activeTab, completedCrop, isMaskEmpty,
                           saveState, calls, saves, nextFile>>

\* the render after a step that brought the viewport back (from the crop
\* view, the expand panel or the error panel): the image and the mask canvas
\* are new elements, and the image's onLoad runs imageLoaded, which sizes
\* the canvas and calls clearMask
imageLoaded ==
    isMaskEmpty' = IF ViewportShown' /\ ~ViewportShown THEN TRUE ELSE isMaskEmpty

\* handleTabClick
TabClick ==
    /\ EditorShown
    /\ \E tab \in Tabs \ {activeTab} : activeTab' = tab
    /\ ev' = "ui"
    /\ UNCHANGED <<appVars, historyVars, isLoading, error, completedCrop, viewVars,
                   saveState, calls, saves, nextFile, lastLoad>>
    /\ imageLoaded

\* ------------------------------------------------ AI-backed edits
\* (mutant) the catch block swallows the error
FailureMessage_swallowed(op) == NoError

\* t('app.errorFailedTo...') of each handler's catch block
FailureMessage(op) ==
    CASE op = "erase"    -> "errorFailedToGenerate"
      [] op = "filters"  -> "errorFailedToFilter"
      [] op = "adjust"   -> "errorFailedToAdjust"
      [] op = "portrait" -> "errorFailedToEnhancePortrait"
      [] op = "enhance"  -> "errorFailedToEnhance"
      [] op = "hq"       -> "errorFailedToEnhance"
      [] op = "expand"   -> "errorFailedToExpand"
      [] op = "combine"  -> "errorFailedToCombine"
      [] op = "bgRemove" -> "errorFailedToRemoveBg"

\* the message of the flat variant's `if (!currentImage)` branch
NoImageMessage(op) ==
    CASE op = "filters"  -> "errorNoImageForFilter"
      [] op = "adjust"   -> "errorNoImageForAdjustment"
      [] op = "portrait" -> "errorNoImageForPortrait"
      [] OTHER           -> "errorNoImage"

\* the call a handler issues: it keeps the render's history and historyIndex
\* (through addImageToHistory); live = the instance that issued it is still
\* mounted; seq tells two calls of one render apart; token is the load the
\* session was in (a history variable)
NewCall(op) == [live |-> TRUE, op |-> op, history |-> history,
                historyIndex |-> historyIndex, seq |-> Cardinality(calls),
                token |-> lastLoad]

\* setIsLoading(true); setError(null); ... await generateXxx(currentImage, ...)
IssueCall(op) ==
    /\ isLoading' = TRUE
    /\ error' = NoError
    /\ calls' = calls \cup {NewCall(op)}
    /\ UNCHANGED <<appVars, historyVars, activeTab, completedCrop, viewVars,
                   isMaskEmpty, saveState, saves, nextFile, lastLoad>>

\* the handlers that differ only in the generate function and the messages:
\* handleApplyFilter, handleApplyAdjustment, handleApplyPortraitEnhancement,
\* handleApplyEnhancement, handleApplyExpand, handleCombine,
\* handleRemoveBackground
handleApply(op) ==
    IF currentImage = NoFile
    THEN /\ error' = IF variant = "keyed" THEN error ELSE NoImageMessage(op)
         /\ UNCHANGED <<appVars, historyVars, isLoading, activeTab, completedCrop,
                        viewVars, isMaskEmpty, saveState, calls, saves, nextFile, lastLoad>>
    ELSE IssueCall(op)

\* handleErase: the mask precondition, then the binary mask is rasterised
\* (which throws when no 2d context is to be had) before the call is issued
\* (mutant) the mask flag is left out of the precondition
ErasePrecondition_ignoresMask == ~(currentImage = NoFile \/ ~ViewportShown)

\* !currentImage || !maskCanvasRef.current || isMaskEmpty, negated: the mask
\* canvas exists while the viewport is on screen
ErasePrecondition == ~(currentImage = NoFile \/ ~ViewportShown \/ isMaskEmpty)

handleErase ==
    IF ~ErasePrecondition
    THEN /\ error' = "errorNoMask"
         /\ UNCHANGED <<appVars, historyVars, isLoading, activeTab, completedCrop,
                        viewVars, isMaskEmpty, saveState, calls, saves, nextFile, lastLoad>>
    ELSE \E ctx \in BOOLEAN :
           IF ctx
           THEN IssueCall("erase")
           ELSE /\ error' = FailureMessage("erase")
                /\ isLoading' = FALSE
                /\ UNCHANGED <<appVars, historyVars, activeTab, completedCrop, viewVars,
                               isMaskEmpty, saveState, calls, saves, nextFile, lastLoad>>

\* handleHQDownload (keyed variant only)
handleHQDownload ==
    IF currentImage = NoFile
    THEN UNCHANGED <<appVars, historyVars, isLoading, error, activeTab, completedCrop,
                     viewVars, isMaskEmpty, saveState, calls, saves, nextFile, lastLoad>>
    ELSE IssueCall("hq")

\* (mutant) the erase button is disabled by the empty mask only
ErasePanelEnabled_notWhileLoading == ~isMaskEmpty

\* the apply buttons' `disabled` attributes, negated
EnhancePanelEnabled == ~isLoading
ErasePanelEnabled == ~(isLoading \/ isMaskEmpty)
\* ExpandPanel: a handle has been dragged outwards (isExpanded), then the button
ExpandPanelEnabled == ~isLoading
\* FilterPanel receives isLoading; its markup is not in the sources, the
\* gating is the one section 5 of the specification requires
FilterPanelEnabled == ~isLoading
HQDownloadEnabled == ~isLoading

PanelEnabled(op) ==
    CASE op = "enhance"  -> EnhancePanelEnabled
      [] op = "erase"    -> ErasePanelEnabled
      [] op = "expand"   -> ExpandPanelEnabled
      [] op = "filters"  -> FilterPanelEnabled

\* a click on the apply button of the active tab's panel
ClickApply ==
    /\ EditorShown
    /\ \E op \in (EditOps \cap Tabs) \ {"erase"} :
         /\ activeTab = op
         /\ PanelEnabled(op)
         /\ handleApply(op)
    /\ ev' = IF currentImage = NoFile THEN "rejected" ELSE "start"

ClickErase ==
    /\ EditorShown
    /\ activeTab = "erase"
    /\ PanelEnabled("erase")
    /\ handleErase
    /\ ev' = IF ~ErasePrecondition THEN "rejected"
             ELSE IF calls' # calls THEN "start" ELSE "eraseFailed"

ClickHQDownload ==
    /\ variant = "keyed"
    /\ EditorShown
    /\ HQDownloadEnabled
    /\ handleHQDownload
    /\ ev' = IF currentImage = NoFile THEN "rejected" ELSE "start"

\* the awaited call resolves in a mounted instance: the rest of the try block
\* (dataURLtoFile, addImageToHistory) and the finally block
ResolveSuccess(c) ==
    /\ c \in calls
    /\ c.live
    /\ calls' = calls \ {c}
    /\ isLoading' = FALSE
    /\ IF c.op = "hq"
       THEN /\ ev' = "downloaded"
            /\ UNCHANGED <<historyVars, completedCrop, viewVars, isMaskEmpty,
                           saveState, nextFile>>
       ELSE /\ nextFile <= MaxFiles
            /\ nextFile' = nextFile + 1
            /\ Commit(c.history, c.historyIndex, nextFile)
            /\ ev' = "commit"
    /\ UNCHANGED <<appVars, error, activeTab, saves, lastLoad>>

\* the awaited call rejects in a mounted instance: catch and finally
ResolveFailure(c) ==
    /\ c \in calls
    /\ c.live
    /\ calls' = calls \ {c}
    /\ error' = FailureMessage(c.op)
    /\ isLoading' = FALSE
    /\ ev' = "failed"
    /\ UNCHANGED <<appVars, historyVars, activeTab, completedCrop, viewVars,
                   isMaskEmpty, saveState, saves, nextFile, lastLoad>>

\* the call of an instance that has been unmounted settles: its setters are
\* ignored
ResolveUnmounted(c) ==
    /\ c \in calls
    /\ ~c.live
    /\ calls' = calls \ {c}
    /\ ev' = "dropped"
    /\ UNCHANGED <<appVars, historyVars, isLoading, error, activeTab, completedCrop,
                   viewVars, isMaskEmpty, saveState, saves, nextFile, lastLoad>>

Resolve == \E c \in calls : ResolveSuccess(c) \/ ResolveFailure(c) \/ ResolveUnmounted(c)

\* ------------------------------------------------ crop
\* ReactCrop's onComplete; the loading overlay covers the crop area
CompleteCrop ==
    /\ EditorShown
    /\ activeTab = "crop"
    /\ ~isLoading
    /\ \E c \in CropSelections : completedCrop' = c
    /\ ev' = "ui"
    /\ UNCHANGED <<appVars, historyVars, isLoading, error, activeTab, viewVars,
                   isMaskEmpty, saveState, calls, saves, nextFile, lastLoad>>

\* the isCropping prop: !!completedCrop (keyed), completedCrop.width > 0 (flat)
isCropping == IF variant = "keyed" THEN completedCrop # NoCrop
              ELSE completedCrop # NoCrop /\ completedCrop.width > 0

\* CropPanel's markup is not in the sources: its apply button is taken to be
\* disabled while loading and while nothing is selected
CropPanelEnabled == ~isLoading /\ isCropping

\* !completedCrop || !imgRef.current: an image element exists while the editor
\* is on screen
CropPrecondition == ~(completedCrop = NoCrop \/ ~EditorShown)

\* canvas.toDataURL('image/png'): a canvas with no pixels gives "data:,"
toDataURL(width, height) ==
    IF width <= 0 \/ height <= 0 THEN "data:," ELSE "data:image/png;base64,"

\* (mutant) every data URL is taken to carry a MIME type
dataURLtoFileThrows_never(dataurl) == FALSE

\* dataURLtoFile throws when the part before the comma has no ":<mime>;" or
\* an empty one (!mimeMatch || !mimeMatch[1])
dataURLtoFileThrows(dataurl) == dataurl \in {"data:,", "data:;base64,"}

\* handleApplyCrop: synchronous, it pushes from the current render; the push
\* is not reached when dataURLtoFile throws
handleApplyCrop ==
    IF ~CropPrecondition
    THEN /\ error' = IF variant = "keyed" THEN error ELSE "errorNoCropSelection"
         /\ ev' = "cropRejected"
         /\ UNCHANGED <<historyVars, completedCrop, viewVars, isMaskEmpty, saveState, nextFile>>
    ELSE \E ctx \in BOOLEAN :
           IF ctx /\ dataURLtoFileThrows(toDataURL(completedCrop.width,
                                                   completedCrop.height))
           THEN /\ ev' = "cropThrew"
                /\ UNCHANGED <<historyVars, completedCrop, viewVars, isMaskEmpty,
                               saveState, nextFile, error>>
           ELSE IF ctx
           THEN /\ nextFile <= MaxFiles
                /\ nextFile' = nextFile + 1
                /\ Commit(history, historyIndex, nextFile)
                /\ ev' = "crop"
                /\ error' = error
           ELSE /\ error' = IF variant = "keyed" THEN error ELSE "errorCropProcess"
                /\ ev' = "cropRejected"
                /\ UNCHANGED <<historyVars, completedCrop, viewVars, isMaskEmpty,
                               saveState, nextFile>>

ClickApplyCrop ==
    /\ EditorShown
    /\ activeTab = "crop"
    /\ CropPanelEnabled
    /\ handleApplyCrop
    /\ UNCHANGED <<appVars, isLoading, activeTab, calls, saves, lastLoad>>

\* ------------------------------------------------ undo, redo, reset
\* keyed: if (canUndo) setHistoryIndex(historyIndex - 1); resetZoomAndPan();
\* flat:  if (canUndo) { setHistoryIndex(historyIndex - 1); resetZoomAndPan(); }
handleUndo ==
    /\ IF canUndo THEN MoveIndex(historyIndex - 1)
       ELSE UNCHANGED <<historyVars, saveState, isMaskEmpty>>
    /\ IF canUndo \/ variant = "keyed"
       THEN scale' = resetZoomAndPan.scale /\ position' = resetZoomAndPan.position
       ELSE UNCHANGED viewVars
    /\ ev' = "undo"
    /\ UNCHANGED <<appVars, isLoading, error, activeTab, completedCrop, calls, saves,
                   nextFile, lastLoad>>

handleRedo ==
    /\ IF canRedo THEN MoveIndex(historyIndex + 1)
       ELSE UNCHANGED <<historyVars, saveState, isMaskEmpty>>
    /\ IF canRedo \/ variant = "keyed"
       THEN scale' = resetZoomAndPan.scale /\ position' = resetZoomAndPan.position
       ELSE UNCHANGED viewVars
    /\ ev' = "redo"
    /\ UNCHANGED <<appVars, isLoading, error, activeTab, completedCrop, calls, saves,
                   nextFile, lastLoad>>

\* (mutant) reset drops the versions after the original
handleReset_truncating ==
    /\ IF Len(history) > 0
       THEN /\ historyIndex' = 0
            /\ history' = SubSeq(history, 1, 1)
            /\ IF CurrentImageEffect(currentImage, history[1])
               THEN saveState' = "idle" /\ isMaskEmpty' = TRUE
               ELSE UNCHANGED <<saveState, isMaskEmpty>>
            /\ error' = NoError
            /\ scale' = resetZoomAndPan.scale
            /\ position' = resetZoomAndPan.position
       ELSE UNCHANGED <<historyVars, saveState, isMaskEmpty, error, viewVars>>
    /\ ev' = "reset"
    /\ UNCHANGED <<appVars, isLoading, activeTab, completedCrop, calls, saves,
                   nextFile, lastLoad>>

\* if (history.length > 0) { setHistoryIndex(0); setError(null); resetZoomAndPan(); }
handleReset ==
    /\ IF Len(history) > 0
       THEN /\ MoveIndex(0)
            /\ error' = NoError
            /\ scale' = resetZoomAndPan.scale
            /\ position' = resetZoomAndPan.position
       ELSE UNCHANGED <<historyVars, saveState, isMaskEmpty, error, viewVars>>
    /\ ev' = "reset"
    /\ UNCHANGED <<appVars, isLoading, activeTab, completedCrop, calls, saves,
                   nextFile, lastLoad>>

\* the buttons' `disabled` attributes, negated
UndoEnabled == IF variant = "keyed" THEN ~(~canUndo \/ isLoading) ELSE canUndo
RedoEnabled == IF variant = "keyed" THEN ~(~canRedo \/ isLoading) ELSE canRedo
ResetEnabled == IF variant = "keyed" THEN ~(isLoading \/ ~canUndo) ELSE canUndo

ClickUndo == EditorShown /\ UndoEnabled /\ handleUndo
ClickRedo == EditorShown /\ RedoEnabled /\ handleRedo
ClickReset == EditorShown /\ ResetEnabled /\ handleReset

\* ------------------------------------------------ mask
\* (mutant) a pointer-down paints whatever the tool
StrokeStarts_anyTool == TRUE

\* handleMouseDown / handleTouchStart: if (activeTab === 'erase')
StrokeStarts == activeTab = "erase"

\* handleMouseDown / handleTouchStart with the erase tab active (the loading
\* overlay is a child of the viewport: the event reaches the viewport)
Paint ==
    /\ ViewportShown
    /\ StrokeStarts
    /\ isMaskEmpty' = FALSE
    /\ ev' = "paint"
    /\ UNCHANGED <<appVars, historyVars, isLoading, error, activeTab, completedCrop,
                   viewVars, saveState, calls, saves, nextFile, lastLoad>>

\* clearMask from ErasePanel's clear button
ClickClearMask ==
    /\ EditorShown
    /\ activeTab = "erase"
    /\ ~(isLoading \/ isMaskEmpty)
    /\ isMaskEmpty' = TRUE
    /\ ev' = "clearMask"
    /\ UNCHANGED <<appVars, historyVars, isLoading, error, activeTab, completedCrop,
                   viewVars, saveState, calls, saves, nextFile, lastLoad>>

\* ------------------------------------------------ zoom
\* the zoom buttons' delta: 0.2 (keyed), 0.25 (flat)
ZoomStep == IF variant = "keyed" THEN 20 ELSE 25

\* handleZoom(delta, centerX, centerY)
handleZoom(delta, centerX, centerY) ==
    LET newScale == IF scale = NaN THEN NaN ELSE Clamp(scale + delta)
    IN  /\ scale' = newScale
        /\ position' = [x |-> Anchor(centerX, position.x, newScale, scale),
                        y |-> Anchor(centerY, position.y, newScale, scale)]

\* the zoom-in and zoom-out buttons (under the loading overlay while loading)
ClickZoom ==
    /\ ViewportShown
    /\ ~isLoading
    /\ \E dir \in {-1, 1} :
         /\ Abs(scale + dir * ZoomStep - InitialScale) <= ViewSteps * ZoomStep
         /\ handleZoom(dir * ZoomStep, ViewportCenterX, ViewportCenterY)
    /\ ev' = "ui"
    /\ UNCHANGED <<appVars, historyVars, isLoading, error, activeTab, completedCrop,
                   isMaskEmpty, saveState, calls, saves, nextFile, lastLoad>>

\* the zoom bar's reset button
ClickResetView ==
    /\ ViewportShown
    /\ ~isLoading
    /\ scale' = resetZoomAndPan.scale
    /\ position' = resetZoomAndPan.position
    /\ ev' = "ui"
    /\ UNCHANGED <<appVars, historyVars, isLoading, error, activeTab, completedCrop,
                   isMaskEmpty, saveState, calls, saves, nextFile, lastLoad>>

\* ------------------------------------------------ gallery save, error panel
SaveEnabled == IF variant = "keyed" THEN ~(isLoading \/ saveState # "idle")
               ELSE ~(saveState # "idle" \/ currentImage = NoFile)

\* handleSaveToGallery up to its await
ClickSave ==
    /\ EditorShown
    /\ SaveEnabled
    /\ saves < MaxSaves
    /\ saves' = saves + 1
    /\ saveState' = "saving"
    /\ ev' = "ui"
    /\ UNCHANGED <<appVars, historyVars, isLoading, error, activeTab, completedCrop,
                   viewVars, isMaskEmpty, calls, nextFile, lastLoad>>

\* saveImageToGallery resolves: setSaveState('saved')
SaveSuccess ==
    /\ saves > 0
    /\ saves' = saves - 1
    /\ saveState' = "saved"
    /\ ev' = "ui"
    /\ UNCHANGED <<appVars, historyVars, isLoading, error, activeTab, completedCrop,
                   viewVars, isMaskEmpty, calls, nextFile, lastLoad>>

\* saveImageToGallery rejects: setError(...); setSaveState('idle')
SaveFailure ==
    /\ saves > 0
    /\ saves' = saves - 1
    /\ error' = "errorSaveToGallery"
    /\ saveState' = "idle"
    /\ ev' = "saveFailed"
    /\ UNCHANGED <<appVars, historyVars, isLoading, activeTab, completedCrop,
                   viewVars, isMaskEmpty, calls, nextFile, lastLoad>>

\* the error panel's button: setError(null)
DismissError ==
    /\ mounted
    /\ error # NoError
    /\ error' = NoError
    /\ ev' = "ui"
    /\ UNCHANGED <<appVars, historyVars, isLoading, activeTab, completedCrop,
                   viewVars, saveState, calls, saves, nextFile, lastLoad>>
    /\ imageLoaded

\* ------------------------------------------------ specifications
Next ==
    \/ FileSelect /\ UNCHANGED auxVars
    \/ GallerySelect /\ UNCHANGED auxVars
    \/ UploadNew /\ UNCHANGED auxVars
    \/ TabClick /\ UNCHANGED auxVars
    \/ ClickApply /\ UNCHANGED auxVars
    \/ ClickErase /\ UNCHANGED auxVars
    \/ ClickHQDownload /\ UNCHANGED auxVars
    \/ Resolve /\ UNCHANGED auxVars
    \/ CompleteCrop /\ UNCHANGED auxVars
    \/ ClickApplyCrop /\ UNCHANGED auxVars
    \/ ClickUndo /\ UNCHANGED auxVars
    \/ ClickRedo /\ UNCHANGED auxVars
    \/ ClickReset /\ UNCHANGED auxVars
    \/ Paint /\ UNCHANGED auxVars
    \/ ClickClearMask /\ UNCHANGED auxVars
    \/ ClickZoom /\ UNCHANGED auxVars
    \/ ClickResetView /\ UNCHANGED auxVars
    \/ ClickSave /\ UNCHANGED auxVars
    \/ SaveSuccess /\ UNCHANGED auxVars
    \/ SaveFailure /\ UNCHANGED auxVars
    \/ DismissError /\ UNCHANGED auxVars

\* the program as its user can drive it
Spec == Init /\ [][Next]_vars

\* the handlers of undo and redo called as commands, whatever the state of
\* their buttons (section 6 of the specification: the core accepts the
\* commands undo, redo, reset)
CommandUndo == mounted /\ error = NoError /\ handleUndo /\ UNCHANGED auxVars
CommandRedo == mounted /\ error = NoError /\ handleRedo /\ UNCHANGED auxVars

NextCommands == Next \/ CommandUndo \/ CommandRedo

SpecCommands == Init /\ [][NextCommands]_vars

\* handleReset called as a command, whatever the state of its button
CommandReset == mounted /\ handleReset /\ UNCHANGED auxVars

NextReset == Next \/ CommandReset

SpecReset == Init /\ [][NextReset]_vars

\* ------------------------------------------------ application modes
\* AppContent.handleSwitchMode (part_000), the handler behind the header's
\* onSwitchMode: from the editor with an image to 'batch' (EditorContent is
\* unmounted), from anywhere else to 'editor' (EditorContent is mounted when
\* there is an image, nothing is rendered when there is none)
handleSwitchMode ==
    /\ variant = "keyed"
    /\ ev' = "switchMode"
    /\ IF appMode = "editor" /\ initialEditorImage # NoFile
       THEN /\ appMode' = "batch"
            /\ mounted' = FALSE
            /\ BlankSession
            /\ saves' = 0
            /\ calls' = Orphaned
            /\ lastLoad' = NoFile
            /\ UNCHANGED <<variant, initialEditorImage, nextFile>>
       ELSE IF initialEditorImage # NoFile
       THEN /\ MountEditor(initialEditorImage)
            /\ UNCHANGED <<variant, nextFile>>
       ELSE /\ appMode' = "editor"
            /\ UNCHANGED <<variant, initialEditorImage, mounted, historyVars,
                           isLoading, error, activeTab, completedCrop, viewVars,
                           isMaskEmpty, saveState, calls, saves, nextFile, lastLoad>>

SwitchMode == handleSwitchMode /\ UNCHANGED auxVars

\* StartScreen's onGenerateClick: handleGenerateClick
GenerateClick ==
    /\ variant = "keyed"
    /\ appMode = "start"
    /\ appMode' = "generator"
    /\ ev' = "generate"
    /\ UNCHANGED <<variant, initialEditorImage, mounted, historyVars, isLoading,
                   error, activeTab, completedCrop, viewVars, isMaskEmpty,
                   saveState, calls, saves, nextFile, lastLoad>>
    /\ UNCHANGED auxVars

\* ImageGenerator's onBack: AppContent.handleUploadNew
GeneratorBack ==
    /\ variant = "keyed"
    /\ appMode = "generator"
    /\ initialEditorImage' = NoFile
    /\ appMode' = "start"
    /\ ev' = "uploadNew"
    /\ UNCHANGED <<variant, mounted, historyVars, isLoading, error, activeTab,
                   completedCrop, viewVars, isMaskEmpty, saveState, calls, saves,
                   nextFile, lastLoad>>
    /\ UNCHANGED auxVars

\* ImageGenerator's "edit this image": handleImageSelectForEditing(file)
GeneratorSelect ==
    /\ variant = "keyed"
    /\ appMode = "generator"
    /\ nextFile <= MaxFiles
    /\ nextFile' = nextFile + 1
    /\ MountEditor(nextFile)
    /\ ev' = "load"
    /\ UNCHANGED variant
    /\ UNCHANGED auxVars

\* BatchProcessor's onExit prop: () => setAppMode('editor')
BatchExit ==
    /\ variant = "keyed"
    /\ appMode = "batch"
    /\ ev' = "batchExit"
    /\ IF initialEditorImage # NoFile
       THEN MountEditor(initialEditorImage)
       ELSE /\ appMode' = "editor"
            /\ UNCHANGED <<initialEditorImage, mounted, historyVars, isLoading,
                           error, activeTab, completedCrop, viewVars, isMaskEmpty,
                           saveState, calls, saves, lastLoad>>
    /\ UNCHANGED <<variant, nextFile>>
    /\ UNCHANGED auxVars

NextModes ==
    \/ Next
    \/ SwitchMode
    \/ GenerateClick
    \/ GeneratorBack
    \/ GeneratorSelect
    \/ BatchExit

SpecModes == Init /\ [][NextModes]_vars

\* the handlers of the edit tools called as functions, whatever the state of
\* their buttons, in a mounted component that shows no error and has no call
\* in flight
HandlerIdle == mounted /\ error = NoError /\ ~isLoading /\ calls = {}

CommandApply ==
    /\ HandlerIdle
    /\ \E op \in (EditOps \cap Tabs) \ {"erase"} : handleApply(op)
    /\ ev' = IF currentImage = NoFile THEN "rejected" ELSE "start"
    /\ UNCHANGED auxVars

CommandErase ==
    /\ HandlerIdle
    /\ handleErase
    /\ ev' = IF ~ErasePrecondition THEN "rejected"
             ELSE IF calls' # calls THEN "start" ELSE "eraseFailed"
    /\ UNCHANGED auxVars

CommandHQDownload ==
    /\ variant = "keyed"
    /\ HandlerIdle
    /\ handleHQDownload
    /\ ev' = IF currentImage = NoFile THEN "rejected" ELSE "start"
    /\ UNCHANGED auxVars

CommandApplyCrop ==
    /\ HandlerIdle
    /\ handleApplyCrop
    /\ UNCHANGED <<appVars, isLoading, activeTab, calls, saves, lastLoad>>
    /\ UNCHANGED auxVars

NextHandlers ==
    \/ Next
    \/ CommandApply
    \/ CommandErase
    \/ CommandHQDownload
    \/ CommandApplyCrop

SpecHandlers == Init /\ [][NextHandlers]_vars

\* ============================================================ ExpandPanel
\* every variable of the session
sessionVars == <<variant, appMode, initialEditorImage, mounted, history,
                 historyIndex, isLoading, error, activeTab, completedCrop, scale,
                 position, isMaskEmpty, saveState, calls, saves, nextFile, lastLoad>>

\* {activeTab === 'expand' ? <ExpandPanel .../> : ...}
PanelShown == EditorShown /\ activeTab = "expand"

Handles == {"top-left", "top", "top-right", "left", "right",
            "bottom-left", "bottom", "bottom-right"}
HandleIncludes(handle, side) ==
    CASE side = "top"    -> handle \in {"top-left", "top", "top-right"}
      [] side = "bottom" -> handle \in {"bottom-left", "bottom", "bottom-right"}
      [] side = "left"   -> handle \in {"top-left", "left", "bottom-left"}
      [] side = "right"  -> handle \in {"top-right", "right", "bottom-right"}

ZeroRect == [top |-> 0, left |-> 0, width |-> 0, height |-> 0]
ZeroSize == [width |-> 0, height |-> 0]
IdleDrag == [isDragging |-> FALSE, handle |-> "none", startX |-> 0, startY |-> 0,
             initialRect |-> ZeroRect]

\* ExpandPanel's useState / useRef initial values.  hasImage: the img of the
\* panel got a src, which it takes from imgRef.current of the render before
\* (null when the error panel was on screen); the effect then starts the 50 ms
\* timer.  listener: the imageRect the registered handleMouseMove closed over.
FreshPanel(hasImage) ==
    [mounted |-> TRUE, hasImage |-> hasImage, timer |-> hasImage,
     imageRect |-> ZeroSize, expandRect |-> ZeroRect, drag |-> IdleDrag,
     listener |-> ZeroSize]

\* the panel after a step of the session: unmounted, mounted anew, or kept
SyncPanel ==
    expandPanel' = IF ~PanelShown' THEN NoPanel
                   ELSE IF ~PanelShown THEN FreshPanel(EditorShown)
                   ELSE expandPanel

\* resetExpandRect, run by the timer of the effect
resetExpandRect ==
    [expandPanel EXCEPT
       !.timer = FALSE,
       !.imageRect = [width |-> DisplayWidth, height |-> DisplayHeight],
       !.expandRect = [top |-> 0, left |-> 0, width |-> DisplayWidth,
                       height |-> DisplayHeight]]

TimerFires ==
    /\ expandPanel.mounted
    /\ expandPanel.timer
    /\ expandPanel' = resetExpandRect
    /\ ev' = "panel"
    /\ UNCHANGED <<sessionVars, pointer, sideVars>>

\* handleMouseDown(e, handle) of a handle; pointer coordinates are taken
\* relative to the pointer-down point
DragStart ==
    /\ expandPanel.mounted
    /\ ~expandPanel.drag.isDragging
    /\ \E handle \in Handles :
         expandPanel' = [expandPanel EXCEPT
            !.drag = [isDragging |-> TRUE, handle |-> handle, startX |-> 0,
                      startY |-> 0, initialRect |-> expandPanel.expandRect],
            !.listener = expandPanel.imageRect]
    /\ ev' = "panel"
    /\ UNCHANGED <<sessionVars, pointer, sideVars>>

\* (mutant) the rectangle computed from the one of the move before
MovedRect_fromPrevious(drag, imageRect, clientX, clientY) ==
    LET deltaX == clientX - drag.startX
        deltaY == clientY - drag.startY
        r0 == expandPanel.expandRect
        r1 == IF HandleIncludes(drag.handle, "top") /\ r0.height - deltaY >= imageRect.height
              THEN [r0 EXCEPT !.height = r0.height - deltaY, !.top = r0.top + deltaY]
              ELSE r0
        r2 == IF HandleIncludes(drag.handle, "bottom") /\ r1.height + deltaY >= imageRect.height
              THEN [r1 EXCEPT !.height = r1.height + deltaY]
              ELSE r1
        r3 == IF HandleIncludes(drag.handle, "left") /\ r2.width - deltaX >= imageRect.width
              THEN [r2 EXCEPT !.width = r2.width - deltaX, !.left = r2.left + deltaX]
              ELSE r2
        r4 == IF HandleIncludes(drag.handle, "right") /\ r3.width + deltaX >= imageRect.width
              THEN [r3 EXCEPT !.width = r3.width + deltaX]
              ELSE r3
    IN  r4

\* the rectangle handleMouseMove sets for a pointer at (clientX, clientY)
MovedRect(drag, imageRect, clientX, clientY) ==
    LET deltaX == clientX - drag.startX
        deltaY == clientY - drag.startY
        r0 == drag.initialRect
        r1 == IF HandleIncludes(drag.handle, "top") /\ r0.height - deltaY >= imageRect.height
              THEN [r0 EXCEPT !.height = r0.height - deltaY, !.top = r0.top + deltaY]
              ELSE r0
        r2 == IF HandleIncludes(drag.handle, "bottom") /\ r1.height + deltaY >= imageRect.height
              THEN [r1 EXCEPT !.height = r1.height + deltaY]
              ELSE r1
        r3 == IF HandleIncludes(drag.handle, "left") /\ r2.width - deltaX >= imageRect.width
              THEN [r2 EXCEPT !.width = r2.width - deltaX, !.left = r2.left + deltaX]
              ELSE r2
        r4 == IF HandleIncludes(drag.handle, "right") /\ r3.width + deltaX >= imageRect.width
              THEN [r3 EXCEPT !.width = r3.width + deltaX]
              ELSE r3
    IN  r4

\* the rectangles the runs follow
InGrowBound(r) ==
    /\ Abs(r.left) <= MaxGrow /\ Abs(r.top) <= MaxGrow
    /\ r.width <= DisplayWidth + MaxGrow /\ r.height <= DisplayHeight + MaxGrow

\* a pointer move over the window: handleMouseMove (the listener
\* registered at pointer-down), which returns at once when no drag is active;
\* after handleMouseUp removed it, and before the first pointer-down, no
\* listener runs at all
DragMove ==
    /\ expandPanel.mounted
    /\ \E clientX \in -MaxDrag..MaxDrag, clientY \in -MaxDrag..MaxDrag :
         LET r == MovedRect(expandPanel.drag, expandPanel.listener, clientX, clientY)
         IN  IF expandPanel.drag.isDragging
             THEN /\ InGrowBound(r)
                  /\ expandPanel' = [expandPanel EXCEPT !.expandRect = r]
             ELSE UNCHANGED expandPanel
    /\ ev' = "panel"
    /\ UNCHANGED <<sessionVars, pointer, sideVars>>

\* handleMouseUp
DragEnd ==
    /\ expandPanel.mounted
    /\ expandPanel.drag.isDragging
    /\ expandPanel' = [expandPanel EXCEPT !.drag.isDragging = FALSE,
                                          !.drag.handle = "none"]
    /\ ev' = "panel"
    /\ UNCHANGED <<sessionVars, pointer, sideVars>>

isExpanded ==
    \/ expandPanel.expandRect.width > expandPanel.imageRect.width
    \/ expandPanel.expandRect.height > expandPanel.imageRect.height

\* (mutant) the generate button disabled only while loading
GenerateEnabled_onlyWhileLoading == ~isLoading

\* the generate button: disabled={isLoading || !isExpanded}
GenerateEnabled == ~(isLoading \/ ~isExpanded)

\* handleGenerateClick: if (!imgRef.current) return; ... onApplyExpand(...)
handleGenerateClick == handleApply("expand")

GenerateClicked ==
    /\ PanelShown
    /\ GenerateEnabled
    /\ handleGenerateClick
    /\ ev' = IF currentImage = NoFile THEN "rejected" ELSE "start"

ClickGenerate ==
    /\ GenerateClicked
    /\ UNCHANGED auxVars

\* handleTabClick between the expand tab and the tab a load selects
ExpandTabClick ==
    /\ EditorShown
    /\ activeTab' = IF activeTab = "expand"
                    THEN (IF variant = "keyed" THEN "enhance" ELSE "filters")
                    ELSE "expand"
    /\ ev' = "ui"
    /\ UNCHANGED <<appVars, historyVars, isLoading, error, completedCrop, viewVars,
                   saveState, calls, saves, nextFile, lastLoad>>
    /\ imageLoaded
    /\ UNCHANGED <<pointer, sideVars>>
    /\ SyncPanel

\* the session after the load of the last but one File of the run (loads
\* and upload-new before it)
InitExpand ==
    /\ variant \in {"keyed", "flat"}
    /\ appMode = "editor"
    /\ initialEditorImage = IF variant = "keyed" THEN MaxFiles - 1 ELSE NoFile
    /\ mounted = TRUE
    /\ history = <<MaxFiles - 1>>
    /\ historyIndex = 0
    /\ isLoading = FALSE
    /\ error = NoError
    /\ activeTab = IF variant = "keyed" THEN "enhance" ELSE "filters"
    /\ completedCrop = NoCrop
    /\ scale = InitialScale
    /\ position = Origin
    /\ isMaskEmpty = TRUE
    /\ saveState = "idle"
    /\ calls = {}
    /\ saves = 0
    /\ nextFile = MaxFiles
    /\ lastLoad = MaxFiles - 1
    /\ ev = "load"
    /\ pointer = IdlePointer
    /\ expandPanel = NoPanel
    /\ imgElement = RunImage
    /\ apiCall = NoApiCall
    /\ batch = NoBatch
    /\ canvas = NoCanvas

NextExpand ==
    \/ ExpandTabClick
    \/ TimerFires
    \/ DragStart
    \/ DragMove
    \/ DragEnd
    \/ ClickGenerate
    \/ Resolve /\ UNCHANGED <<pointer, sideVars>> /\ SyncPanel
    \/ DismissError /\ UNCHANGED <<pointer, sideVars>> /\ SyncPanel

SpecExpand == InitExpand /\ [][NextExpand]_vars

\* ------------------------------------------------ viewport gestures
viewFrame == <<appVars, historyVars, isLoading, error, activeTab, completedCrop,
               saveState, calls, saves, nextFile, lastLoad, expandPanel, sideVars>>

\* the pointer positions of the runs: the viewport's corner, its centre, ...
PointerPoints == {[x |-> k * ViewportCenterX, y |-> k * ViewportCenterY] :
                    k \in 0..MaxPointer}

\* an event on the viewport
ViewportEvent == ViewportShown /\ pointer.gestures < MaxGestures
Counted == [pointer EXCEPT !.gestures = @ + 1]
NoZoom == [Counted EXCEPT !.center = NoCenter]

\* the zoom buttons, on the viewport
ButtonZoom ==
    /\ ViewportEvent
    /\ ClickZoom
    /\ pointer' = [Counted EXCEPT !.center = [x |-> ViewportCenterX,
                                              y |-> ViewportCenterY]]
    /\ UNCHANGED <<expandPanel, sideVars>>

ButtonResetView ==
    /\ ViewportEvent
    /\ ClickResetView
    /\ pointer' = NoZoom
    /\ UNCHANGED <<expandPanel, sideVars>>

\* handleWheel: handleZoom(-e.deltaY * 0.005, e.clientX - rect.left, ...)
WheelDeltas == {-MaxScale, -ZoomStep, ZoomStep, MaxScale}
handleWheel ==
    /\ ViewportEvent
    /\ \E delta \in WheelDeltas, c \in PointerPoints :
         /\ handleZoom(delta, c.x, c.y)
         /\ pointer' = [Counted EXCEPT !.center = c]
    /\ ev' = "wheel"
    /\ UNCHANGED <<viewFrame, isMaskEmpty>>

\* isPanning.current = true; panStart.current = {x: clientX - position.x, ...}
PanStarted(c) ==
    [NoZoom EXCEPT !.isPanning = TRUE,
                   !.panStart = [x |-> Minus(c.x, position.x),
                                 y |-> Minus(c.y, position.y)]]

\* setPosition({x: clientX - panStart.current.x, ...})
Panned(c) == [x |-> Minus(c.x, pointer.panStart.x),
              y |-> Minus(c.y, pointer.panStart.y)]

\* (clientX - rect.left - position.x) / scale, the scale in hundredths
Transformed(c, off, s) ==
    IF s = NaN \/ off = NaNCoord THEN NaNCoord
    ELSE LET q == Minus(c, off)
             k == Frac(InitialScale, s)
             g1 == Gcd(Abs(q[1]), k[2])
             g2 == Gcd(k[1], q[2])
         IN  Frac((q[1] \div g1) * (k[1] \div g2), (q[2] \div g2) * (k[2] \div g1))

getTransformedCoordinates(c) ==
    [x |-> Transformed(c.x, position.x, scale),
     y |-> Transformed(c.y, position.y, scale)]

\* drawOnCanvas: a segment from lastPosition.current, if there is one, to the
\* point of the event, which becomes lastPosition.current
drawOnCanvas(p, c) ==
    [p EXCEPT !.lastPosition = <<getTransformedCoordinates(c)>>,
              !.maskPainted = TRUE]

\* if (activeTab === 'erase' && isDrawing.current) { isDrawing.current =
\* false; lastPosition.current = null; }
StrokeEnded(p) ==
    IF activeTab = "erase" /\ p.isDrawing
    THEN [p EXCEPT !.isDrawing = FALSE, !.lastPosition = NoPosition]
    ELSE p

\* handleMouseDown with the left button: the button was up, and no finger
\* is on the viewport (the pointer is a mouse or fingers, not both at once)
handleMouseDown ==
    /\ ViewportEvent
    /\ ~pointer.mouseDown /\ pointer.touches = 0
    /\ \E c \in PointerPoints :
         IF activeTab = "erase"
         THEN /\ pointer' = drawOnCanvas([NoZoom EXCEPT !.isDrawing = TRUE,
                                                        !.mouseDown = TRUE], c)
              /\ isMaskEmpty' = FALSE
         ELSE /\ pointer' = [IF scale # NaN /\ scale <= InitialScale
                             THEN NoZoom ELSE PanStarted(c)
                               EXCEPT !.mouseDown = TRUE]
              /\ UNCHANGED isMaskEmpty
    /\ ev' = "down"
    /\ UNCHANGED <<viewFrame, viewVars>>

\* handleMouseMove
handleMouseMove ==
    /\ ViewportEvent
    /\ \E c \in PointerPoints :
         IF activeTab = "erase" /\ pointer.isDrawing
         THEN /\ pointer' = drawOnCanvas(NoZoom, c)
              /\ position' = position
         ELSE /\ pointer' = NoZoom
              /\ position' = IF pointer.isPanning THEN Panned(c) ELSE position
    /\ ev' = "move"
    /\ UNCHANGED <<viewFrame, scale, isMaskEmpty>>

\* handleMouseUpOrLeave
handleMouseUpOrLeave ==
    /\ ViewportEvent
    /\ pointer' = [StrokeEnded(NoZoom) EXCEPT !.isPanning = FALSE,
                                              !.mouseDown = FALSE]
    /\ ev' = "up"
    /\ UNCHANGED <<viewFrame, viewVars, isMaskEmpty>>

\* handleTouchStart, e.touches.length = the fingers now on the viewport
handleTouchStart ==
    /\ ViewportEvent
    /\ pointer.touches < MaxTouches
    /\ ~pointer.mouseDown
    /\ LET n == pointer.touches + 1
           down == [NoZoom EXCEPT !.touches = n]
       IN  IF n = 2
           THEN /\ \E d \in 0..MaxDist :
                     pointer' = [down EXCEPT !.initialTouchDistance = d,
                                             !.initialScale = scale]
                /\ UNCHANGED isMaskEmpty
           ELSE IF n = 1
           THEN IF activeTab = "erase"
                THEN /\ \E c \in PointerPoints :
                          pointer' = drawOnCanvas([down EXCEPT !.isDrawing = TRUE], c)
                     /\ isMaskEmpty' = FALSE
                ELSE /\ \E c \in PointerPoints :
                          pointer' = IF scale # NaN /\ scale > InitialScale
                                     THEN [PanStarted(c) EXCEPT !.touches = n]
                                     ELSE down
                     /\ UNCHANGED isMaskEmpty
           ELSE /\ pointer' = down
                /\ UNCHANGED isMaskEmpty
    /\ ev' = "touchStart"
    /\ UNCHANGED <<viewFrame, viewVars>>

\* Math.min(Math.max(0.2, initialScale.current * (currentDistance /
\* initialTouchDistance.current)), 8): 0 / 0 is NaN, which Math.max and
\* Math.min hand on; d / 0 is Infinity for d > 0
PinchScale(initialScale, initialDistance, currentDistance) ==
    IF initialScale = NaN THEN NaN
    ELSE IF initialDistance = 0
         THEN (IF currentDistance = 0 THEN NaN ELSE MaxScale)
         ELSE Clamp((initialScale * currentDistance) \div initialDistance)

\* handleTouchMove
handleTouchMove ==
    /\ ViewportEvent
    /\ pointer.touches > 0
    /\ IF pointer.touches = 2
       THEN \E currentDistance \in 0..MaxDist, mid \in PointerPoints :
              LET newScale == PinchScale(pointer.initialScale,
                                         pointer.initialTouchDistance,
                                         currentDistance)
              IN  /\ pointer.initialTouchDistance > 0 /\ pointer.initialScale # NaN =>
                        (pointer.initialScale * currentDistance)
                            % pointer.initialTouchDistance = 0
                  /\ scale' = newScale
                  /\ position' = [x |-> Anchor(mid.x, position.x, newScale, scale),
                                  y |-> Anchor(mid.y, position.y, newScale, scale)]
                  /\ pointer' = [Counted EXCEPT !.center = mid]
                  /\ ev' = "pinch"
       ELSE /\ \E c \in PointerPoints :
                 IF pointer.touches = 1 /\ activeTab = "erase" /\ pointer.isDrawing
                 THEN /\ pointer' = drawOnCanvas(NoZoom, c)
                      /\ position' = position
                 ELSE /\ pointer' = NoZoom
                      /\ position' = IF pointer.touches = 1 /\ pointer.isPanning
                                      THEN Panned(c) ELSE position
            /\ scale' = scale
            /\ ev' = "move"
    /\ UNCHANGED <<viewFrame, isMaskEmpty>>

\* handleTouchEnd
handleTouchEnd ==
    /\ ViewportEvent
    /\ pointer.touches > 0
    /\ pointer' = [StrokeEnded(NoZoom) EXCEPT
                     !.touches = @ - 1,
                     !.isPanning = FALSE,
                     !.initialTouchDistance = 0]
    /\ ev' = "touchEnd"
    /\ UNCHANGED <<viewFrame, viewVars, isMaskEmpty>>

\* a step of the session empties the mask canvas: clearMask ran (in
\* addImageToHistory, in the [currentImage] effect, in imageLoaded of a new
\* img element, from the clear button), or the canvas went with the viewport
MaskCleared ==
    \/ ev' \in {"commit", "crop", "clearMask"}
    \/ CurrentImageEffect(currentImage, currentImage')
    \/ ~ViewportShown'
    \/ ~ViewportShown

\* the mask canvas over a step of the session
SurfaceFollows ==
    pointer' = [pointer EXCEPT !.maskPainted = IF MaskCleared THEN FALSE ELSE @]

\* the session after an image load, with the tab the load selects or with
\* the erase tool
InitView ==
    /\ variant \in {"keyed", "flat"}
    /\ appMode = "editor"
    /\ initialEditorImage = IF variant = "keyed" THEN 1 ELSE NoFile
    /\ mounted = TRUE
    /\ history = <<1>>
    /\ historyIndex = 0
    /\ isLoading = FALSE
    /\ error = NoError
    /\ activeTab \in {IF variant = "keyed" THEN "enhance" ELSE "filters", "erase"}
    /\ completedCrop = NoCrop
    /\ scale = InitialScale
    /\ position = Origin
    /\ isMaskEmpty = TRUE
    /\ saveState = "idle"
    /\ calls = {}
    /\ saves = 0
    /\ nextFile = 2
    /\ lastLoad = 1
    /\ ev = "load"
    /\ pointer = IdlePointer
    /\ expandPanel = NoPanel
    /\ imgElement = RunImage
    /\ apiCall = NoApiCall
    /\ batch = NoBatch
    /\ canvas = NoCanvas

NextView ==
    \/ ButtonZoom
    \/ ButtonResetView
    \/ handleWheel
    \/ handleMouseDown
    \/ handleMouseMove
    \/ handleMouseUpOrLeave
    \/ handleTouchStart
    \/ handleTouchMove
    \/ handleTouchEnd
    \/ TabClick /\ SurfaceFollows /\ UNCHANGED <<expandPanel, sideVars>>

SpecView == InitView /\ [][NextView]_vars

\* ------------------------------------------------ double arithmetic
\* floor(log2(a / b)) for integers a, b > 0
RECURSIVE Exponent(_, _)
Exponent(a, b) ==
    IF a >= b THEN (IF a >= 2 * b THEN 1 + Exponent(a, 2 * b) ELSE 0)
    ELSE Exponent(2 * a, b) - 1

\* the long division a / b carried on for so many binary digits: the
\* remainder and the last digit of the quotient
RECURSIVE Divide(_, _, _, _)
Divide(r, bit, b, digits) ==
    IF digits = 0 THEN <<r, bit>>
    ELSE Divide((2 * r) % b, (2 * r) \div b, b, digits - 1)

\* the k with fl(a / b) = a / b + k / (b * 2^s), s the digits after the
\* leading one: a / b rounded to DoubleBits significant bits, ties to even
QuotientError(a, b) ==
    LET s == DoubleBits - 1 - Exponent(a, b)
        d == Divide(a % b, (a \div b) % 2, b, s)
        r == d[1]
    IN  IF 2 * r < b THEN -r
        ELSE IF 2 * r > b THEN b - r
        ELSE IF d[2] = 0 THEN -r ELSE b - r

\* fl(b * fl(a / b)) as the number of units in the last place it lies from
\* a: the exact product is a + k / 2^s, rounded to the nearest double
RoundTripUlps(a, b) ==
    LET k == QuotientError(a, b)
        d == Exponent(a, 1) - Exponent(a, b)
        below == IF a = 2 ^ Exponent(a, 1) THEN 4 ELSE 2
    IN  IF k = 0 THEN 0
        ELSE IF k > 0 THEN (IF 2 * k <= 2 ^ d THEN 0 ELSE 1)
        ELSE IF below * (-k) <= 2 ^ d THEN 0 ELSE -1

\* c * (a / b) in doubles for c = 0 and for c = b, as the integer it is near
\* and the units in the last place it is off
Scaled(c, a, b) ==
    IF c = 0 THEN [value |-> 0, ulps |-> 0]
    ELSE [value |-> a, ulps |-> RoundTripUlps(a, b)]

\* ------------------------------------------------ crop geometry
\* the session after an image load with the given tab selected
SessionLoaded(tab) ==
    /\ variant \in {"keyed", "flat"}
    /\ appMode = "editor"
    /\ initialEditorImage = IF variant = "keyed" THEN MaxFiles - 1 ELSE NoFile
    /\ mounted = TRUE
    /\ history = <<MaxFiles - 1>>
    /\ historyIndex = 0
    /\ isLoading = FALSE
    /\ error = NoError
    /\ activeTab = tab
    /\ scale = InitialScale
    /\ position = Origin
    /\ isMaskEmpty = TRUE
    /\ saveState = "idle"
    /\ calls = {}
    /\ saves = 0
    /\ nextFile = MaxFiles
    /\ lastLoad = MaxFiles - 1
    /\ ev = "load"
    /\ pointer = IdlePointer

ImageElements ==
    [naturalWidth : 1..MaxPixels, naturalHeight : 1..MaxSide,
     width : 1..MaxPixels, height : 1..MaxSide]

\* the regions of the crop runs: a click without a drag, a line, the whole
\* displayed image
CropRegions(img) ==
    {[x |-> 0, y |-> 0, width |-> w, height |-> h] :
        w \in {0, img.width}, h \in {0, img.height}}

\* ReactCrop's onComplete={c => setCompletedCrop(c)}
CropComplete ==
    /\ EditorShown
    /\ activeTab = "crop"
    /\ \E c \in CropRegions(imgElement) : completedCrop' = c
    /\ ev' = "ui"
    /\ UNCHANGED <<appVars, historyVars, isLoading, error, activeTab, viewVars,
                   isMaskEmpty, saveState, calls, saves, nextFile, lastLoad, auxVars>>

\* window.devicePixelRatio || 1
PixelRatio(devicePixelRatio) == IF devicePixelRatio = 0 THEN 1 ELSE devicePixelRatio

\* the canvas of handleApplyCrop: its size and the source rectangle of
\* drawImage(image, x * scaleX, y * scaleY, width * scaleX, height * scaleY, ...)
CropCanvas(img, crop, devicePixelRatio) ==
    [kind |-> "crop",
     pixelRatio |-> PixelRatio(devicePixelRatio),
     width |-> crop.width * PixelRatio(devicePixelRatio),
     height |-> crop.height * PixelRatio(devicePixelRatio),
     sx |-> Scaled(crop.x, img.naturalWidth, img.width),
     sy |-> Scaled(crop.y, img.naturalHeight, img.height),
     sw |-> Scaled(crop.width, img.naturalWidth, img.width),
     sh |-> Scaled(crop.height, img.naturalHeight, img.height),
     crop |-> crop]

\* the canvas a run of handleApplyCrop leaves behind
CropCanvasMade ==
    \E devicePixelRatio \in 0..MaxRatio :
        canvas' = IF ev' \in {"crop", "cropThrew"}
                  THEN CropCanvas(imgElement, completedCrop, devicePixelRatio)
                  ELSE canvas

\* the crop panel's apply button
ApplyCrop ==
    /\ ClickApplyCrop
    /\ CropCanvasMade
    /\ UNCHANGED <<pointer, expandPanel, imgElement, apiCall, batch>>

\* handleApplyCrop called whatever the button shows
CommandCrop ==
    /\ HandlerIdle
    /\ handleApplyCrop
    /\ UNCHANGED <<appVars, isLoading, activeTab, calls, saves, lastLoad>>
    /\ CropCanvasMade
    /\ UNCHANGED <<pointer, expandPanel, imgElement, apiCall, batch>>

InitCrop ==
    /\ SessionLoaded("crop")
    /\ completedCrop = NoCrop
    /\ expandPanel = NoPanel
    /\ imgElement \in ImageElements
    /\ apiCall = NoApiCall
    /\ batch = NoBatch
    /\ canvas = NoCanvas

NextCrop ==
    \/ CropComplete
    \/ ApplyCrop
    \/ CommandCrop

SpecCrop == InitCrop /\ [][NextCrop]_vars

\* ------------------------------------------------ generation parameters
\* Math.round(c * (a / b)) for integers c >= 0, a, b > 0.  The exact product
\* c * fl(a / b) is c * a / b + c * k / (b * 2^s); it rounds to another integer
\* than c * a / b only when c * a / b lies halfway between two integers and
\* the double nearest to the product is the one below it.
RoundScaled(c, a, b) ==
    LET exact == (2 * c * a + b) \div (2 * b)
        halfway == (2 * c * a) % (2 * b) = b
        k == QuotientError(a, b)
        d == Exponent(c * a, b) - Exponent(a, b)
        below == IF 2 * c * a = b THEN 4 ELSE 2
    IN  IF c > 0 /\ halfway /\ k < 0 /\ below * c * (-k) > b * 2 ^ d
        THEN exact - 1 ELSE exact

\* (mutant) the offsets scaled with their sign
GenerationParams_signedOffset(img, imageRect, rect) ==
    [newNaturalWidth |-> RoundScaled(rect.width, img.naturalWidth, imageRect.width),
     newNaturalHeight |-> RoundScaled(rect.height, img.naturalHeight, imageRect.height),
     imageNaturalX |-> RoundScaled(rect.left, img.naturalWidth, imageRect.width),
     imageNaturalY |-> RoundScaled(rect.top, img.naturalHeight, imageRect.height)]

\* handleGenerateClick: what it passes to onApplyExpand
GenerationParams(img, imageRect, rect) ==
    [newNaturalWidth |-> RoundScaled(rect.width, img.naturalWidth, imageRect.width),
     newNaturalHeight |-> RoundScaled(rect.height, img.naturalHeight, imageRect.height),
     imageNaturalX |-> RoundScaled(Abs(rect.left), img.naturalWidth, imageRect.width),
     imageNaturalY |-> RoundScaled(Abs(rect.top), img.naturalHeight, imageRect.height)]

\* the canvas of generateExpandedImage: canvas.width = targetWidth,
\* canvas.height = targetHeight, drawImage(originalImage, imageX, imageY)
ExpandCanvas(img, imageRect, rect) ==
    LET params == GenerationParams(img, imageRect, rect)
    IN  [kind |-> "expand",
         width |-> params.newNaturalWidth,
         height |-> params.newNaturalHeight,
         x |-> params.imageNaturalX,
         y |-> params.imageNaturalY,
         rect |-> rect]

\* the generate button, with the canvas the call composes
ApplyExpand ==
    /\ GenerateClicked
    /\ canvas' = IF ev' = "start"
                 THEN ExpandCanvas(imgElement, expandPanel.imageRect,
                                   expandPanel.expandRect)
                 ELSE canvas
    /\ UNCHANGED <<pointer, expandPanel, imgElement, apiCall, batch>>

\* the images of these runs, and the rectangles a drag can leave around one:
\* no smaller than the image, grown to the left and upwards or not
ParamImages == {img \in ImageElements : img.width <= MaxDisplay}
ExpandRects(img) ==
    {[top |-> -t, left |-> -l, width |-> w, height |-> h] :
        t \in 0..MaxGrow, l \in 0..MaxGrow,
        w \in img.width..MaxRect, h \in img.height..(img.height + MaxGrow)}

\* the expand tab after resetExpandRect measured the image and drags ended
InitParams ==
    /\ SessionLoaded("expand")
    /\ completedCrop = NoCrop
    /\ imgElement \in ParamImages
    /\ apiCall = NoApiCall
    /\ batch = NoBatch
    /\ \E r \in ExpandRects(imgElement) :
         expandPanel = [FreshPanel(TRUE) EXCEPT
            !.timer = FALSE,
            !.imageRect = [width |-> imgElement.width, height |-> imgElement.height],
            !.listener = [width |-> imgElement.width, height |-> imgElement.height],
            !.expandRect = r]
    /\ canvas = NoCanvas

NextParams == ApplyExpand

SpecParams == InitParams /\ [][NextParams]_vars

\* ------------------------------------------------ mask binarization
Pixel(r, g, b, a) == [r |-> r, g |-> g, b |-> b, a |-> a]
OpaqueWhite == Pixel(255, 255, 255, 255)
OpaqueBlack == Pixel(0, 0, 0, 255)
\* an untouched pixel of the mask canvas, and one under a stroke of
\* strokeStyle rgba(239, 68, 68, 0.7)
Transparent == Pixel(0, 0, 0, 0)
StrokePixel == Pixel(239, 68, 68, 179)
MaskPixels == {Transparent, StrokePixel, OpaqueWhite, OpaqueBlack}

\* the loop of handleErase over imageData.data, one pixel:
\* if (data[i + 3] > 0) white else black
BinarizePixel(p) == IF p.a > 0 THEN OpaqueWhite ELSE OpaqueBlack
Binarize(data) == [i \in DOMAIN data |-> BinarizePixel(data[i])]

\* the loop run on the image data of the canvas
BinarizeMask ==
    /\ canvas.kind = "mask"
    /\ canvas' = [canvas EXCEPT !.data = Binarize(@)]
    /\ ev' = "binarize"
    /\ UNCHANGED <<sessionVars, pointer, expandPanel, imgElement, apiCall, batch>>

Masks == UNION {[1..n -> MaskPixels] : n \in 1..MaxMaskPixels}

InitMask ==
    /\ SessionLoaded("erase")
    /\ completedCrop = NoCrop
    /\ expandPanel = NoPanel
    /\ imgElement = RunImage
    /\ apiCall = NoApiCall
    /\ batch = NoBatch
    /\ canvas \in [kind : {"mask"}, data : Masks]

NextMask == BinarizeMask

SpecMask == InitMask /\ [][NextMask]_vars

\* ------------------------------------------------ strokes and the session
\* the mouse on the mask while the session goes on: edits start and
\* complete, the mask is cleared, tabs and versions change
NextStroke ==
    \/ handleMouseDown
    \/ handleMouseMove
    \/ handleMouseUpOrLeave
    \/ TabClick /\ SurfaceFollows /\ UNCHANGED <<expandPanel, sideVars>>
    \/ ClickApply /\ SurfaceFollows /\ UNCHANGED <<expandPanel, sideVars>>
    \/ ClickErase /\ SurfaceFollows /\ UNCHANGED <<expandPanel, sideVars>>
    \/ Resolve /\ SurfaceFollows /\ UNCHANGED <<expandPanel, sideVars>>
    \/ ClickClearMask /\ SurfaceFollows /\ UNCHANGED <<expandPanel, sideVars>>
    \/ ClickUndo /\ SurfaceFollows /\ UNCHANGED <<expandPanel, sideVars>>
    \/ ClickRedo /\ SurfaceFollows /\ UNCHANGED <<expandPanel, sideVars>>

SpecStroke == InitView /\ [][NextStroke]_vars

\* ------------------------------------------------ handleApiResponse
\* a part of a candidate's content: text, or inline data (the k-th part of a
\* candidate carries the data k)
NoInlineData == [mimeType |-> "", data |-> 0]
TextPart == [inlineData |-> NoInlineData]
ImagePart(k) == [inlineData |-> [mimeType |-> "image/png", data |-> k]]

\* "" stands for a field that is absent
FinishReasons == {"", "STOP", "SAFETY"}
BlockReasons == {"", "OTHER"}
\* response.text: none, blanks only, words
Texts == {"", " ", "words"}

PartLists ==
    UNION {{[k \in 1..n |-> IF k \in img THEN ImagePart(k) ELSE TextPart] :
              img \in SUBSET (1..n)} : n \in 0..MaxParts}
Candidates == [parts : PartLists, finishReason : FinishReasons]
CandidateLists == UNION {[1..n -> Candidates] : n \in 0..MaxCandidates}
Responses == [blockReason : BlockReasons, candidates : CandidateLists, text : Texts]

\* String.prototype.trim on the texts of the runs
trim(text) == IF text = " " THEN "" ELSE text

\* parts.find(part => part.inlineData): the first such part, or none
RECURSIVE find(_, _)
find(parts, k) ==
    IF k > Len(parts) THEN NoInlineData
    ELSE IF parts[k].inlineData # NoInlineData THEN parts[k].inlineData
    ELSE find(parts, k + 1)

\* (mutant) the image part is looked for before the block reason
handleApiResponse_imageFirst(response, context) ==
    LET first == IF Len(response.candidates) > 0 THEN response.candidates[1]
                 ELSE [parts |-> <<>>, finishReason |-> ""]
        inlineData == find(first.parts, 1)
    IN  IF inlineData # NoInlineData
        THEN [returned |-> TRUE, mimeType |-> inlineData.mimeType,
              data |-> inlineData.data]
        ELSE IF response.blockReason # ""
        THEN [returned |-> FALSE, message |-> "blocked", context |-> context,
              detail |-> response.blockReason]
        ELSE IF first.finishReason # "" /\ first.finishReason # "STOP"
        THEN [returned |-> FALSE, message |-> "stopped", context |-> context,
              detail |-> first.finishReason]
        ELSE [returned |-> FALSE, message |-> "noImage", context |-> context,
              detail |-> trim(response.text)]

\* handleApiResponse: the data URL it returns, or the Error it throws
handleApiResponse(response, context) ==
    LET first == IF Len(response.candidates) > 0 THEN response.candidates[1]
                 ELSE [parts |-> <<>>, finishReason |-> ""]
        inlineData == find(first.parts, 1)
    IN  IF response.blockReason # ""
        THEN [returned |-> FALSE, message |-> "blocked", context |-> context,
              detail |-> response.blockReason]
        ELSE IF inlineData # NoInlineData
        THEN [returned |-> TRUE, mimeType |-> inlineData.mimeType,
              data |-> inlineData.data]
        ELSE IF first.finishReason # "" /\ first.finishReason # "STOP"
        THEN [returned |-> FALSE, message |-> "stopped", context |-> context,
              detail |-> first.finishReason]
        ELSE [returned |-> FALSE, message |-> "noImage", context |-> context,
              detail |-> trim(response.text)]

\* generateContent resolved with a response: the service function hands it
\* to handleApiResponse
HandleResponse ==
    /\ apiCall.kind = "response"
    /\ apiCall' = [kind |-> "handled", response |-> apiCall.response,
                   result |-> handleApiResponse(apiCall.response, apiCall.context)]
    /\ ev' = "handled"
    /\ UNCHANGED <<sessionVars, pointer, expandPanel, geomVars, batch>>

InitApi ==
    /\ SessionLoaded("filters")
    /\ variant = "keyed"
    /\ completedCrop = NoCrop
    /\ expandPanel = NoPanel
    /\ imgElement = RunImage
    /\ canvas = NoCanvas
    /\ apiCall \in [kind : {"response"}, response : Responses, context : {"filter"}]
    /\ batch = NoBatch

NextApi == HandleResponse

SpecApi == InitApi /\ [][NextApi]_vars

\* ============================================================ BatchProcessor
\* the useState initial values of BatchProcessor, and the locals of
\* handleApplyAndDownload while it awaits (run: images and selectedFilter are
\* those of the render the button was clicked in; i counts from 1).
\* archive (history field): the ids put in the zip by the last run.
\* trail (history field): the values setStatus was called with in the last run.
NoRun == [kind |-> "none"]
BlankBatch == [mounted |-> TRUE, images |-> <<>>, selectedFilter |-> "",
               status |-> "idle", progress |-> [current |-> 0, total |-> 0],
               nextId |-> 1, run |-> NoRun, archive |-> <<>>, trail |-> <<>>]

\* two of the four presets
BatchFilters == {"synthwave", "anime"}

\* what generateFilteredImage resolves with: a data URL, whose MIME type is
\* the one the response carried (it may be empty)
ResultUrls == {"data:image/png;base64,", "data:;base64,"}

\* const isLoading = status !== 'idle'
batchIsLoading == batch.status # "idle"

\* the ids of a list of images; Date.now() + index is taken to give every
\* image an id of its own
ImageIds(images) == {images[k].id : k \in 1..Len(images)}

\* prev.map(img => img.id === id ? { ...img, status } : img)
withStatus(images, id, status) ==
    [k \in 1..Len(images) |->
       IF images[k].id = id THEN [images[k] EXCEPT !.status = status]
       ELSE images[k]]

\* prev.map(img => img.id === id ? { ...img, status: 'done', resultUrl } : img)
withResult(images, id, resultUrl) ==
    [k \in 1..Len(images) |->
       IF images[k].id = id
       THEN [images[k] EXCEPT !.status = "done", !.resultUrl = resultUrl]
       ELSE images[k]]

\* the new entries of handleFileSelect for n image files
NewImages(first, n) ==
    [k \in 1..n |-> [id |-> first + k - 1, status |-> "pending", resultUrl |-> ""]]

batchFrame == UNCHANGED <<sessionVars, pointer, expandPanel, geomVars, apiCall>>

\* handleFileSelect, from the drop zone, the upload input or "upload more"
\* (none of them is disabled while a run is in progress)
BatchFileSelect ==
    /\ batch.mounted
    /\ \E n \in 0..(MaxBatchImages + 1 - batch.nextId) :
         batch' = [batch EXCEPT
                     !.images = batch.images \o NewImages(batch.nextId, n),
                     !.nextId = batch.nextId + n]
    /\ ev' = "batchUpload"
    /\ batchFrame

\* the "clear queue" button: setImages([]); shown while the queue is not
\* empty, not disabled while a run is in progress
ClearQueue ==
    /\ batch.mounted
    /\ batch.images # <<>>
    /\ batch' = [batch EXCEPT !.images = <<>>]
    /\ ev' = "batchClear"
    /\ batchFrame

\* a filter button: disabled={isLoading}
SelectFilter ==
    /\ batch.mounted
    /\ ~batchIsLoading
    /\ \E f \in BatchFilters : batch' = [batch EXCEPT !.selectedFilter = f]
    /\ ev' = "batchFilter"
    /\ batchFrame

\* the apply-and-download button, disabled={isLoading || !selectedFilter ||
\* images.length === 0}: handleApplyAndDownload and processImages up to the
\* first await
StartRun ==
    /\ batch.mounted
    /\ ~(batchIsLoading \/ batch.selectedFilter = "" \/ Len(batch.images) = 0)
    /\ batch' = [batch EXCEPT
                   !.status = "processing",
                   !.progress = [current |-> 1, total |-> Len(batch.images)],
                   !.images = withStatus(batch.images, batch.images[1].id, "processing"),
                   !.run = [kind |-> "call", images |-> batch.images, i |-> 1,
                            processedImages |-> <<>>],
                   !.archive = <<>>,
                   !.trail = <<"processing">>]
    /\ ev' = "batchStart"
    /\ batchFrame

\* processedImages.filter(img => img.status === 'done')
Done(processedImages) == SelectSeq(processedImages, LAMBDA img : img.status = "done")

\* the awaited generateFilteredImage settles: the try or the catch block of
\* iteration i, then either the head of iteration i + 1 up to its await, or
\* the return of processImages and handleApplyAndDownload / downloadZip up to
\* zip.generateAsync (dataURLtoFile may throw before it; nothing catches it)
CallSettles ==
    /\ batch.run.kind = "call"
    /\ \E outcome \in ResultUrls \cup {"rejected"} :
         LET run == batch.run
             image == run.images[run.i]
             marked == IF outcome = "rejected"
                       THEN withStatus(batch.images, image.id, "error")
                       ELSE withResult(batch.images, image.id, outcome)
             entry == IF outcome = "rejected"
                      THEN [image EXCEPT !.status = "error"]
                      ELSE [image EXCEPT !.status = "done", !.resultUrl = outcome]
             processedImages == Append(run.processedImages, entry)
             processed == Done(processedImages)
         IN  IF run.i < Len(run.images)
             THEN /\ batch' = [batch EXCEPT
                                 !.images = withStatus(marked, run.images[run.i + 1].id,
                                                       "processing"),
                                 !.progress = [current |-> run.i + 1,
                                               total |-> Len(run.images)],
                                 !.run = [run EXCEPT !.i = run.i + 1,
                                            !.processedImages = processedImages]]
                  /\ ev' = "batchNext"
             ELSE IF Len(processed) = 0
             THEN /\ batch' = [batch EXCEPT !.images = marked, !.status = "idle",
                                 !.run = NoRun,
                                 !.trail = Append(batch.trail, "idle")]
                  /\ ev' = "batchDone"
             ELSE IF \E k \in 1..Len(processed) : dataURLtoFileThrows(processed[k].resultUrl)
             THEN /\ batch' = [batch EXCEPT !.images = marked, !.status = "compressing",
                                 !.run = NoRun,
                                 !.trail = Append(batch.trail, "compressing")]
                  /\ ev' = "batchThrew"
             ELSE /\ batch' = [batch EXCEPT !.images = marked, !.status = "compressing",
                                 !.run = [kind |-> "archive", images |-> run.images,
                                          i |-> run.i, processedImages |-> processed],
                                 !.trail = Append(batch.trail, "compressing")]
                  /\ ev' = "batchCompress"
    /\ batchFrame

\* the awaited zip.generateAsync settles: the rest of downloadZip
\* (setStatus('downloading'), the link click, setStatus('idle')), or the
\* rejection that nothing catches
ArchiveSettles ==
    /\ batch.run.kind = "archive"
    /\ \E fulfilled \in BOOLEAN :
         IF fulfilled
         THEN /\ batch' = [batch EXCEPT
                             !.status = "idle",
                             !.run = NoRun,
                             !.archive = [k \in 1..Len(batch.run.processedImages) |->
                                            batch.run.processedImages[k].id],
                             !.trail = batch.trail \o <<"downloading", "idle">>]
              /\ ev' = "batchDone"
         ELSE /\ batch' = [batch EXCEPT !.run = NoRun]
              /\ ev' = "batchThrew"
    /\ batchFrame

\* the batch screen as handleSwitchMode leaves it: image 1 was loaded in the
\* editor, which is unmounted
InitBatch ==
    /\ variant = "keyed"
    /\ appMode = "batch"
    /\ initialEditorImage = 1
    /\ mounted = FALSE
    /\ history = <<>>
    /\ historyIndex = -1
    /\ isLoading = FALSE
    /\ error = NoError
    /\ activeTab = "enhance"
    /\ completedCrop = NoCrop
    /\ scale = InitialScale
    /\ position = Origin
    /\ isMaskEmpty = TRUE
    /\ saveState = "idle"
    /\ calls = {}
    /\ saves = 0
    /\ nextFile = 2
    /\ lastLoad = NoFile
    /\ ev = "switchMode"
    /\ pointer = IdlePointer
    /\ expandPanel = NoPanel
    /\ imgElement = RunImage
    /\ apiCall = NoApiCall
    /\ batch = BlankBatch
    /\ canvas = NoCanvas

NextBatch ==
    \/ BatchFileSelect
    \/ ClearQueue
    \/ SelectFilter
    \/ StartRun
    \/ CallSettles
    \/ ArchiveSettles

SpecBatch == InitBatch /\ [][NextBatch]_vars

\* every external call and the archive step settle
SpecBatchSettling ==
    SpecBatch /\ WF_vars(CallSettles) /\ WF_vars(ArchiveSettles)

\* ============================================================ claims
liveCalls == {c \in calls : c.live}

\* what addImageToHistory leaves behind when it ran in a render whose history
\* and historyIndex were h and i
PushedOnto(h, i) ==
    /\ Len(history') = i + 2
    /\ SubSeq(history', 1, i + 1) = SubSeq(h, 1, i + 1)
    /\ history'[i + 2] \notin Range(h)
    /\ historyIndex' = i + 1
    /\ ~(historyIndex' < Len(history') - 1)
    /\ \A k \in (i + 2)..Len(h) : h[k] \notin Range(history')

C2_IndexInRange ==
    /\ history # <<>> => (0 <= historyIndex /\ historyIndex < Len(history))
    /\ canUndo <=> historyIndex > 0
    /\ canRedo <=> historyIndex < Len(history) - 1
    /\ (EditorShown /\ UndoEnabled) => historyIndex - 1 >= 0
    /\ (EditorShown /\ RedoEnabled) => historyIndex + 1 < Len(history)

C2_Witness ==
    /\ ev = "undo"
    /\ Len(history) = 2
    /\ historyIndex = 0
    /\ canRedo /\ ~canUndo

\* C3: undo called at index 0 and redo called at the last index change
\* nothing: not the history, not the index, not any other field of the
\* session, the view transform included.
C3_UndoRedoAtBoundsNoOp ==
    [][ ((ev' = "undo" /\ ~canUndo) \/ (ev' = "redo" /\ ~canRedo)) =>
          UNCHANGED <<historyVars, isLoading, error, activeTab, completedCrop,
                      scale, position, isMaskEmpty, saveState>>
      ]_vars

\* C4: while the history is not empty its entry 0 is the image of the most
\* recent load.
C4_OriginalIsLastLoad ==
    history # <<>> => originalImage = lastLoad

\* C5: right after a load the history is the loaded image alone at index 0
\* (no undo, no redo), the mask-empty flag is true, no crop selection is
\* pending and the view is at scale 1, offset (0,0).
C5_LoadResetsSession ==
    ev = "load" =>
        /\ history = <<lastLoad>>
        /\ historyIndex = 0
        /\ ~canUndo /\ ~canRedo
        /\ isMaskEmpty
        /\ completedCrop = NoCrop
        /\ scale = 100
        /\ position = [x |-> <<0, 1>>, y |-> <<0, 1>>]

\* a load into a session that was busy
C5_Witness ==
    /\ ev = "load"
    /\ lastLoad > 1
    /\ isLoading
    /\ history = <<lastLoad>>

\* C6: a committed edit leaves, from a state with index i, a history of
\* length i + 2 at index i + 1, the mask-empty flag true, no crop selection
\* and the view reset.
C6_CommitFromCurrentIndex ==
    [][ ev' \in {"commit", "crop"} =>
          /\ Len(history') = historyIndex + 2
          /\ historyIndex' = historyIndex + 1
          /\ isMaskEmpty'
          /\ completedCrop' = NoCrop
          /\ scale' = 100
          /\ position' = [x |-> <<0, 1>>, y |-> <<0, 1>>]
      ]_vars

\* C7: the mounted session has at most one external call in flight, and it is
\* busy (isLoading) for as long as one is.
C7_OneCallInFlight ==
    /\ Cardinality(liveCalls) <= 1
    /\ liveCalls # {} => isLoading

\* a call is in flight while the user stands on another tool's panel
C7_Witness ==
    \E c \in liveCalls :
        /\ EditorShown
        /\ activeTab \in EditOps
        /\ activeTab # c.op
        /\ ~isMaskEmpty

\* C8: the result of a call issued before the latest load (or before the
\* editor was left) changes neither the history nor the index when it settles.
C8_LateResultDiscarded ==
    [][ \A c \in calls :
          (ev' \in {"commit", "failed", "downloaded", "dropped"}
             /\ c \notin calls' /\ c.token # lastLoad)
          => (history' = history /\ historyIndex' = historyIndex)
      ]_vars

C10_ErrorFreezesSession ==
    [][ (error # NoError /\ error' # NoError) =>
          /\ history' = history
          /\ historyIndex' = historyIndex
          /\ calls' \subseteq calls
      ]_vars

\* a step in which a handler found its local precondition failed
PreconditionFailed ==
    \/ ev' = "rejected"
    \/ ev' = "cropRejected" /\ ~CropPrecondition

\* C11: a call is issued only with an image loaded, and an erase call only
\* with the mask-empty flag false; a crop is applied only with a completed
\* region on a loaded image; a handler whose precondition failed issues no
\* call, pushes nothing and leaves the session not busy.
C11_NoCallWithoutPrecondition ==
    [][ /\ (\E c \in calls' \ calls : c.live) =>
              /\ currentImage # NoFile
              /\ \A c \in calls' \ calls : c.op = "erase" => ~isMaskEmpty
        /\ ev' = "crop" => (completedCrop # NoCrop /\ currentImage # NoFile)
        /\ PreconditionFailed =>
              /\ calls' = calls
              /\ ~isLoading'
              /\ UNCHANGED historyVars
      ]_vars

\* handleErase was called with the mask-empty flag true
C11_Witness ==
    /\ ev = "rejected"
    /\ error = "errorNoMask"
    /\ currentImage # NoFile
    /\ isMaskEmpty
    /\ ~isLoading
    /\ calls = {}

\* C12: a handler whose local precondition failed leaves an error message set.
C12_PreconditionFailureSetsError ==
    [][ PreconditionFailed => error' # NoError ]_vars

\* C19: the mask-empty flag is true after a clear, a load and a commit; it
\* turns false only in a pointer-down (or single touch-start) with the erase
\* tool active, and that pointer-down alone turns it false.
C19_MaskFlagLifecycle ==
    [][ /\ ev' \in {"clearMask", "load", "commit", "crop"} => isMaskEmpty'
        /\ (isMaskEmpty /\ ~isMaskEmpty') => (ev' = "paint" /\ activeTab = "erase")
        /\ ev' = "paint" => ~isMaskEmpty'
      ]_vars

\* a pointer-down on a second version made the flag false
C19_Witness ==
    /\ ev = "paint"
    /\ ~isMaskEmpty
    /\ activeTab = "erase"
    /\ historyIndex = 1

\* C20: whenever a step changes the current image to another version, the
\* mask-empty flag is true after it.
C20_VersionChangeClearsMask ==
    [][ (currentImage' # currentImage /\ currentImage' # NoFile) => isMaskEmpty' ]_vars

\* a redo arrived at the last version with the flag true
C20_Witness ==
    /\ ev = "redo"
    /\ historyIndex = 1
    /\ Len(history) = 2
    /\ isMaskEmpty

C14_ExpandNonShrink ==
    expandPanel.mounted =>
        /\ expandPanel.expandRect.width >= expandPanel.imageRect.width
        /\ expandPanel.expandRect.height >= expandPanel.imageRect.height

\* C15: in every state of the expand panel the displayed image, at (0,0)
\* with the size (W,H), lies inside the rectangle: left <= 0, top <= 0,
\* left + width >= W and top + height >= H.  Stated for the states after
\* the reset measured the image whose rectangle is no smaller than the
\* image, so that it does not rest on C14.
C15_ImageInsideRect ==
    (expandPanel.mounted
       /\ expandPanel.imageRect = [width |-> DisplayWidth, height |-> DisplayHeight]
       /\ expandPanel.expandRect.width >= expandPanel.imageRect.width
       /\ expandPanel.expandRect.height >= expandPanel.imageRect.height) =>
        /\ expandPanel.expandRect.left <= 0
        /\ expandPanel.expandRect.top <= 0
        /\ expandPanel.expandRect.left + expandPanel.expandRect.width
              >= expandPanel.imageRect.width
        /\ expandPanel.expandRect.top + expandPanel.expandRect.height
              >= expandPanel.imageRect.height

\* C16: in every state, after any sequence of button zooms, wheel zooms,
\* pinch moves, pans and resets, the scale is a number between 0.2 and 8.
C16_ScaleInRange ==
    scale # NaN /\ MinScale <= scale /\ scale <= MaxScale

\* the image-space coordinate under the viewport coordinate c, (c - off) / s,
\* as a fraction in lowest terms
ImagePoint(c, off, s) ==
    LET q == Minus(c, off)
        g == Gcd(Abs(q[1]), s)
    IN  Frac(q[1] \div g, q[2] * (s \div g))

\* the image-space point under the viewport coordinate c is the same before
\* and after: (c - off') / scale' = (c - off) / scale
AnchoredAt(c, off, offAfter, s, sAfter) ==
    ImagePoint(c, offAfter, sAfter) = ImagePoint(c, off, s)

\* C17: after handleZoom(delta, cx, cy) (zoom buttons and wheel), called
\* with a scale and an offset that are numbers, the image-space point that
\* was under (cx, cy) is still under (cx, cy), also when the new scale was
\* clamped.
C17_ZoomAnchored ==
    [][ (/\ ev' \in {"wheel", "ui"}
         /\ pointer'.center # NoCenter
         /\ scale # NaN
         /\ position.x # NaNCoord /\ position.y # NaNCoord) =>
            /\ scale' # NaN
            /\ position'.x # NaNCoord /\ position'.y # NaNCoord
            /\ AnchoredAt(pointer'.center.x, position.x, position'.x, scale, scale')
            /\ AnchoredAt(pointer'.center.y, position.y, position'.y, scale, scale') ]_vars

\* a wheel zoom at the viewport's centre that was clamped at the largest
\* scale and moved the offset
C17_Witness ==
    /\ ev = "wheel"
    /\ pointer.center = [x |-> ViewportCenterX, y |-> ViewportCenterY]
    /\ scale = MaxScale
    /\ position.x # NaNCoord
    /\ position.x[1] < 0

\* C18: a pointer or single-touch move changes the offset only while the
\* scale is above 1, whatever happened to the scale since the drag began.
C18_PanOnlyWhenZoomedIn ==
    [][ (ev' = "move" /\ position' # position) =>
            (scale # NaN /\ scale > InitialScale) ]_vars

\* C21: a change of the active tool leaves the history, the index and the
\* mask-empty flag as they were (so that, with no version change in between,
\* the mask is the same on the return to the erase tool).
C21_TabChangeKeepsHistoryAndMask ==
    [][ (ev' = "ui" /\ activeTab' # activeTab) =>
            /\ UNCHANGED historyVars
            /\ isMaskEmpty' = isMaskEmpty ]_vars

\* the region handleApplyCrop worked on was the whole displayed image
FullCropDrawn ==
    /\ canvas.kind = "crop"
    /\ canvas.crop = [x |-> 0, y |-> 0, width |-> imgElement.width,
                      height |-> imgElement.height]

\* C22: the crop region covering the whole displayed image (0, 0, dw, dh)
\* maps to the source rectangle (0, 0, nw, nh) exactly, for every display
\* size and natural size.
C22_FullCropMapsToNaturalRect ==
    FullCropDrawn =>
        /\ canvas.sx = [value |-> 0, ulps |-> 0]
        /\ canvas.sy = [value |-> 0, ulps |-> 0]
        /\ canvas.sw = [value |-> imgElement.naturalWidth, ulps |-> 0]
        /\ canvas.sh = [value |-> imgElement.naturalHeight, ulps |-> 0]

\* C23: the raster of an applied crop is as wide and as high as the crop at
\* natural resolution (crop width * naturalWidth / displayWidth, and so for
\* the height) times the device pixel ratio.
C23_RasterIsNaturalCropSize ==
    canvas.kind = "crop" =>
        /\ canvas.width * imgElement.width
              = canvas.crop.width * imgElement.naturalWidth * canvas.pixelRatio
        /\ canvas.height * imgElement.height
              = canvas.crop.height * imgElement.naturalHeight * canvas.pixelRatio

\* C24: applying a crop with no completed region, or with a completed region
\* of width * height = 0, adds nothing to the history and leaves the index.
C24_EmptyCropAddsNothing ==
    [][ (/\ ev' \in {"crop", "cropRejected", "cropThrew"}
         /\ \/ completedCrop = NoCrop
            \/ completedCrop.width * completedCrop.height = 0) =>
            UNCHANGED historyVars ]_vars

\* a crop of a region of no area was applied (the keyed version's button is
\* enabled for it) and the history is as it was
C24_Witness ==
    /\ ev = "cropThrew"
    /\ completedCrop # NoCrop
    /\ completedCrop.width * completedCrop.height = 0
    /\ canvas.kind = "crop" /\ canvas.width = 0
    /\ history = <<MaxFiles - 1>> /\ historyIndex = 0

IsBinaryMask(data) == \A i \in DOMAIN data : data[i] \in {OpaqueWhite, OpaqueBlack}

\* C25: the binarization of a mask whose pixels are all opaque white or
\* opaque black returns that mask, pixel for pixel.
C25_BinarizeIdempotent ==
    [][ (ev' = "binarize" /\ IsBinaryMask(canvas.data)) =>
            canvas'.data = canvas.data ]_vars

\* every call that is awaited settles: the promise of the external service
\* resolves or rejects, and the handler then resumes with its try, catch and
\* finally blocks
SpecSettling == Spec /\ WF_vars(Resolve /\ UNCHANGED auxVars)

\* a call of the mounted instance is in flight exactly while the loading
\* flag is set
BusyWhileCallInFlight == (mounted /\ liveCalls # {}) <=> isLoading

\* the step in which the handler resumes leaves busy: without an error after
\* a result, with an error after a rejection
SettledLeavesBusy ==
    /\ ev' \in {"commit", "downloaded"} => ~isLoading' /\ error' = NoError
    /\ ev' = "failed" => ~isLoading' /\ error' # NoError

\* a busy session eventually leaves busy when every call settles
BusyEnds == isLoading ~> ~isLoading

\* C26: the session is busy from the moment an external call is issued
\* until that call resolves or rejects, and the step that settles the call
\* leaves busy, in idle (no error) on success and in error on failure.
C26_BusyUntilSettled ==
    [][BusyWhileCallInFlight' /\ SettledLeavesBusy]_vars

\* C27: the session status is exactly one of idle, busy and error: the
\* loading flag is never set while an error message is set.
C27_LoadingExcludesError == ~(isLoading /\ error # NoError)

\* n / d rounded to the nearest integer, halves upwards (n >= 0, d > 0)
Rounded(n, d) == (2 * n + d) \div (2 * d)

\* v is an integer nearest to n / d: either neighbour of an exact half
Nearest(v, n, d) == 2 * Abs(v * d - n) <= d

\* C28 (as stated): the expand call receives target width
\* round(rect.width * nw / dw), target height round(rect.height * nh / dh),
\* image x round(|rect.left| * nw / dw) and image y
\* round(|rect.top| * nh / dh).
C28_GenerationParamsExact ==
    canvas.kind = "expand" =>
        /\ canvas.width = Rounded(canvas.rect.width * imgElement.naturalWidth,
                                  imgElement.width)
        /\ canvas.height = Rounded(canvas.rect.height * imgElement.naturalHeight,
                                   imgElement.height)
        /\ canvas.x = Rounded(Abs(canvas.rect.left) * imgElement.naturalWidth,
                              imgElement.width)
        /\ canvas.y = Rounded(Abs(canvas.rect.top) * imgElement.naturalHeight,
                              imgElement.height)

\* C28 (amended): the expand call receives as target width an integer
\* nearest to rect.width * nw / dw, as target height one nearest to
\* rect.height * nh / dh, as image x one nearest to |rect.left| * nw / dw and
\* as image y one nearest to |rect.top| * nh / dh, where an exact half may go
\* to either neighbour: a canvas grown by d display pixels to the left or
\* upwards has the image d times the scale, rounded so, to the right of or
\* below its origin.
C28_GenerationParamsScaled ==
    canvas.kind = "expand" =>
        /\ Nearest(canvas.width, canvas.rect.width * imgElement.naturalWidth,
                   imgElement.width)
        /\ Nearest(canvas.height, canvas.rect.height * imgElement.naturalHeight,
                   imgElement.height)
        /\ Nearest(canvas.x, Abs(canvas.rect.left) * imgElement.naturalWidth,
                   imgElement.width)
        /\ Nearest(canvas.y, Abs(canvas.rect.top) * imgElement.naturalHeight,
                   imgElement.height)

C28_Witness ==
    /\ canvas.kind = "expand"
    /\ canvas.rect.left < 0 /\ canvas.rect.top < 0
    /\ imgElement.naturalWidth > imgElement.width
    /\ canvas.x > Abs(canvas.rect.left)
    /\ canvas.width < Rounded(canvas.rect.width * imgElement.naturalWidth,
                              imgElement.width)

\* the rectangle agrees with the one captured at drag start in every
\* dimension the handle does not imply: an edge the handle does not hold
\* stays where it was
KeepsCaptured(drag, rect) ==
    LET r0 == drag.initialRect
    IN  /\ ~HandleIncludes(drag.handle, "top") => rect.top = r0.top
        /\ ~HandleIncludes(drag.handle, "bottom") =>
              rect.top + rect.height = r0.top + r0.height
        /\ ~HandleIncludes(drag.handle, "left") => rect.left = r0.left
        /\ ~HandleIncludes(drag.handle, "right") =>
              rect.left + rect.width = r0.left + r0.width

C30_StrokeStartsFresh ==
    [][ (/\ activeTab = "erase"
         /\ \/ ev' = "down"
            \/ ev' = "touchStart" /\ pointer'.touches = 1)
        => pointer.lastPosition = NoPosition ]_vars

\* the first candidate of the response handled has an inline-data part
HasImage(response) ==
    /\ Len(response.candidates) > 0
    /\ \E k \in 1..Len(response.candidates[1].parts) :
          response.candidates[1].parts[k].inlineData # NoInlineData

\* the first inline-data part of the first candidate
FirstImage(response) ==
    LET parts == response.candidates[1].parts
        k == CHOOSE i \in 1..Len(parts) :
               /\ parts[i].inlineData # NoInlineData
               /\ \A j \in 1..(i - 1) : parts[j].inlineData = NoInlineData
    IN  parts[k].inlineData

\* C31: handleApiResponse classifies in a fixed order: a response with a
\* prompt block reason fails, also when it holds an image part; otherwise a
\* response whose first candidate has an inline-data part succeeds with that
\* image, whatever the finish reason; otherwise it fails, with the
\* finish-reason message when the finish reason is present and not STOP,
\* else with the no-image message carrying the model's text if there is
\* any.  An image is returned in exactly the second case.
C31_ResponseClassified ==
    apiCall.kind = "handled" =>
        LET response == apiCall.response
            result == apiCall.result
            finishReason == IF Len(response.candidates) > 0
                            THEN response.candidates[1].finishReason ELSE ""
        IN  /\ result.returned <=> (response.blockReason = "" /\ HasImage(response))
            /\ response.blockReason # "" =>
                  result.message = "blocked" /\ result.detail = response.blockReason
            /\ result.returned =>
                  /\ result.data = FirstImage(response).data
                  /\ result.mimeType = FirstImage(response).mimeType
            /\ (response.blockReason = "" /\ ~HasImage(response)) =>
                  IF finishReason \notin {"", "STOP"}
                  THEN result.message = "stopped" /\ result.detail = finishReason
                  ELSE /\ result.message = "noImage"
                       /\ result.detail = trim(response.text)

\* a blocked response that holds an image part was handled
C31_Witness ==
    /\ apiCall.kind = "handled"
    /\ apiCall.response.blockReason # ""
    /\ HasImage(apiCall.response)
    /\ ~apiCall.result.returned

\* C32: a two-finger pinch move never computes the scale from a start
\* distance of zero: whenever a touch-move with two touches is processed,
\* the initial distance recorded is not zero.
C32_PinchStartDistanceNonZero ==
    [][ ev' = "pinch" => pointer.initialTouchDistance > 0 ]_vars

\* C33: the mask-empty flag agrees with the mask surface: whenever the mask
\* canvas holds paint the flag is false, also when a clear happened in the
\* middle of a stroke that then went on.
C33_FlagAgreesWithSurface == pointer.maskPainted => ~isMaskEmpty

\* the version an awaited call was computed from: the current image of the
\* render that issued it
IssuedOn(c) == c.history[c.historyIndex + 1]

\* the entries of the list that were put there after call c was issued
CommittedSince(c) == {f \in Range(history) : f \notin Range(c.history)}

\* C34: when the call issued on version V settles and its result is pushed,
\* the new entry is the one directly after V in the history, and every
\* version that entered the history between the submission and the
\* completion of the call is still in the list after the push.
C34_ResultFollowsItsVersion ==
    [][ \A c \in calls :
          (ev' = "commit" /\ c \notin calls')
          => /\ historyIndex' >= 1
             /\ history'[historyIndex'] = IssuedOn(c)
             /\ history'[historyIndex' + 1] \notin Range(c.history)
             /\ CommittedSince(c) \subseteq Range(history')
      ]_vars

\* C35: a pending completed crop selection refers to the current version:
\* every step that changes the current version (push, undo, redo, reset,
\* load) leaves no completed crop selection behind.
C35_CropClearedOnVersionChange ==
    [][ (currentImage' # currentImage /\ currentImage' # NoFile)
          => completedCrop' = NoCrop ]_vars

\* the versions repeated redo reaches from the current index: redo moves the
\* index up by one for as long as it is below the last position
ReachableByRedo(h, i) == {h[k + 1] : k \in i..(Len(h) - 1)}

\* C36: reset on a non-empty history sets the index to 0 and clears the
\* error and leaves the history list as it is, so that every version that
\* existed before is reachable by repeated redo; reset on an empty history
\* changes nothing.
C36_ResetKeepsHistory ==
    [][ ev' = "reset" =>
          IF history # <<>>
          THEN /\ historyIndex' = 0
               /\ error' = NoError
               /\ history' = history
               /\ Range(history) \subseteq ReachableByRedo(history', historyIndex')
          ELSE UNCHANGED <<appVars, historyVars, isLoading, error, activeTab,
                           completedCrop, viewVars, isMaskEmpty, saveState,
                           calls, saves, nextFile, lastLoad>>
      ]_vars

C36_Witness ==
    /\ ev = "reset"
    /\ Len(history) = 3
    /\ historyIndex = 0
    /\ canRedo
    /\ error = NoError

\* C37: whenever the application mode is 'editor' an image for the editor is
\* loaded (initialEditorImage is not null), whatever the sequence of file
\* selection, upload-new, generate, mode switch, batch exit and gallery
\* selection.
C37_EditorModeHasImage ==
    (variant = "keyed" /\ appMode = "editor") => initialEditorImage # NoFile

\* C38: every batch run terminates with the batch status back at 'idle',
\* whether all, some or none of the images succeed, provided each external
\* call and the archive step settle.
C38_RunReturnsToIdle ==
    (batch.status = "processing") ~> (batch.status = "idle")

\* the images of the queue that are being processed
Processing == {k \in 1..Len(batch.images) : batch.images[k].status = "processing"}

\* processImages returns in this step (its loop is over)
LoopEnds == batch.run.kind = "call" /\ batch'.run.kind # "call"

\* C39: the queued images are processed one at a time and failures are
\* isolated: at most one image has status 'processing', a settled call of an
\* image that is not the last is followed by the call of the next image,
\* when the loop is over every image that was in the queue at the start is
\* in the queue with status 'done' or 'error', and every image put in the
\* archive has status 'done'.
C39_OneAtATimeFailuresIsolated ==
    [][ /\ Cardinality(Processing') <= 1
        /\ (ev' \in {"batchNext", "batchDone", "batchThrew", "batchCompress"}
              /\ batch.run.kind = "call" /\ batch.run.i < Len(batch.run.images))
           => (batch'.run.kind = "call" /\ batch'.run.i = batch.run.i + 1)
        /\ LoopEnds =>
             \A id \in ImageIds(batch.run.images) :
               \E k \in 1..Len(batch'.images) :
                 /\ batch'.images[k].id = id
                 /\ batch'.images[k].status \in {"done", "error"}
        /\ \A n \in 1..Len(batch'.archive) :
             \E k \in 1..Len(batch'.images) :
               /\ batch'.images[k].id = batch'.archive[n]
               /\ batch'.images[k].status = "done"
      ]_vars

====
